---- MODULE Spec2Model ----
(***************************************************************************)
(* Verification model of the zxing-cpp decoding core.                      *)
(*                                                                         *)
(* Part 1 (SpecRS): the prime-field Reed-Solomon decoder                   *)
(*   core/src/ReedSolomonModulusDecoder.cpp over GF(113) and GF(929).      *)
(***************************************************************************)
EXTENDS Integers, Sequences, FiniteSets, TLC

VARIABLES
    rsPc,        \* "idle" before the call, "done" after ReedSolomonDecodeModulus returned
    rsField,     \* modulus of the field handed to the decoder (113 or 929)
    rsK,         \* numECCodewords
    rsSent,      \* the valid codeword the input was derived from (<<>>: arbitrary input)
    rsInjected,  \* number of positions in which the input differs from rsSent
    rsInput,     \* `received` on entry
    rsReceived,  \* `received` on return
    rsOk,        \* return value
    rsNbErrors,  \* output parameter nbErrors (NoValue: never assigned)
    rsCrash      \* TRUE iff the call took inverse/log of zero or indexed out of range

rsVars == <<rsPc, rsField, rsK, rsSent, rsInjected, rsInput, rsReceived, rsOk, rsNbErrors, rsCrash>>

\* OneD::Reader (ODReader.cpp): the options the reader was built with, the
\* call in progress and the locals of the DoDecode pass in progress
VARIABLES
    odPc,           \* "idle", "loop" (row loop of DoDecode), "out" (label out:), "done"
    odOpts,         \* ReaderOptions of the reader
    odCall,         \* which decode() was called, and its maxSymbols
    odImage,        \* the image handed to decode()
    odRotate,       \* DoDecode's rotate argument
    odMaxSymbols,   \* DoDecode's maxSymbols argument
    odMinLineCount, \* DoDecode's minLineCount after lines 244-247
    odI,            \* loop variable i
    odCheckRows,    \* checkRows
    odRes,          \* res
    odRows,         \* rows scanned so far in this pass: <<rowNumber, isCheckRow>>
    odResH,         \* what the default-orientation pass returned
    odResV,         \* what the rotated pass returned
    odRotatedRan,   \* a rotated pass was started
    odRet,          \* what decode() returned
    odOrder         \* history: symbols in the order first accepted / first confirmed

odVars == <<odPc, odOpts, odCall, odImage, odRotate, odMaxSymbols, odMinLineCount, odI,
            odCheckRows, odRes, odRows, odResH, odResV, odRotatedRan, odRet, odOrder>>

\* one 2D, postal or row reader serving one call
VARIABLES
    rdPc,           \* "idle" before the call, "done" after it returned
    rdOpts,         \* ReaderOptions the reader was built with
    rdReader,       \* which reader's decode was called
    rdInput,        \* what detection and decoding make of the image
    rdMaxSymbols,   \* maxSymbols of the call
    rdRet           \* the returned Barcodes

rdVars == <<rdPc, rdOpts, rdReader, rdInput, rdMaxSymbols, rdRet>>

\* one symbology decoder applied to one input
VARIABLES
    cdPc,           \* "idle" before the call, "done" after it returned
    cdFn,           \* which decoder was called
    cdIn,           \* its input
    cdOut           \* what it returned

cdVars == <<cdPc, cdFn, cdIn, cdOut>>

\* the function-local statics of GetGF113 and GetGF929 (ModulusGFFields.cpp)
\* and the threads calling them
VARIABLES
    gfGuard,        \* per field: the state of the static's initialisation guard
    gfObject,       \* per field: the tables of the static ModulusGF object
    gfInits,        \* per field: how many times the constructor was started
    gfThread        \* per thread: where it is, the field it asked for, what it read

gfVars == <<gfGuard, gfObject, gfInits, gfThread>>

vars == <<rsVars, odVars, rdVars, cdVars, gfVars>>

NoValue == -1

(***************************************************************************)
(* Bounds of the model.                                                    *)
(***************************************************************************)
MaxEC == 4        \* largest numECCodewords tried
MaxData == 2      \* largest number of data codewords of a valid codeword
MaxArbLen == 3    \* arbitrary received vectors have 2..MaxArbLen symbols
MaxArbSym == 5    \* ... drawn from 0..MaxArbSym

(***************************************************************************)
(* Pdf417::ModulusGF: prime field, elements 0..p-1, generator 3.           *)
(***************************************************************************)
GF113 == 113
GF929 == 929
Generator == 3
Fields == {GF113, GF929}

RECURSIVE PowMod(_, _, _)
PowMod(g, i, p) ==
    IF i = 0 THEN 1
    ELSE LET h == PowMod(g, i \div 2, p)
         IN  (h * h * (IF i % 2 = 1 THEN g ELSE 1)) % p

RECURSIVE ExpRange(_, _, _)
\* <<generator^lo, ..., generator^(hi-1)>> mod p
ExpRange(p, lo, hi) ==
    IF hi - lo = 1 THEN <<PowMod(Generator, lo, p)>>
    ELSE ExpRange(p, lo, (lo + hi) \div 2) \o ExpRange(p, (lo + hi) \div 2, hi)

RECURSIVE LogRange(_, _, _, _)
\* <<log(lo), ..., log(hi-1)>> read off the exp table e
LogRange(p, e, lo, hi) ==
    IF hi - lo = 1 THEN <<(CHOOSE i \in 1..(p - 1) : e[i] = lo) - 1>>
    ELSE LogRange(p, e, lo, (lo + hi) \div 2) \o LogRange(p, e, (lo + hi) \div 2, hi)

\* _expTable[i] = generator^i mod modulus, stored at index i + 1
ExpTable113 == ExpRange(GF113, 0, GF113)
ExpTable929 == ExpRange(GF929, 0, GF929)
\* _logTable[_expTable[i]] = i for i in 0..modulus-2, stored at index v
LogTable113 == LogRange(GF113, ExpTable113, 1, GF113)
LogTable929 == LogRange(GF929, ExpTable929, 1, GF929)

FieldExp(p, i) == IF p = GF113 THEN ExpTable113[i + 1] ELSE ExpTable929[i + 1]
\* log(0) throws; callers record the crash, the value is then irrelevant
FieldLog(p, a) == IF a = 0 THEN 0 ELSE IF p = GF113 THEN LogTable113[a] ELSE LogTable929[a]
FieldAdd(p, a, b) == (a + b) % p
FieldSubtract(p, a, b) == (p + a - b) % p
FieldMultiply(p, a, b) == (a * b) % p
\* inverse(0) throws; callers record the crash, the value is then irrelevant
FieldInverse(p, a) == IF a = 0 THEN 0 ELSE FieldExp(p, p - FieldLog(p, a) - 1)

(***************************************************************************)
(* Pdf417::ModulusPoly: coefficients highest degree first, no leading      *)
(* zero except for the constant polynomial 0.                              *)
(***************************************************************************)
\* a std::vector<int> holds its elements: the sequence with every element computed
Vector(c) == c \o <<>>

RECURSIVE StripLeadingZeros(_)
StripLeadingZeros(c) ==
    IF Len(c) > 1 /\ c[1] = 0 THEN StripLeadingZeros(Tail(c)) ELSE c

ModulusPoly(c) == StripLeadingZeros(Vector(c))
PolyZero == <<0>>
PolyOne == <<1>>
Degree(a) == Len(a) - 1
IsZero(a) == a[1] = 0
Coefficient(a, d) == a[Len(a) - d]

RECURSIVE Horner(_, _, _, _, _)
Horner(p, a, x, i, acc) ==
    IF i > Len(a) THEN acc
    ELSE Horner(p, a, x, i + 1, FieldAdd(p, FieldMultiply(p, x, acc), a[i]))

EvaluateAt(p, a, x) == Horner(p, a, x, 1, 0)

PolyAdd(p, a, b) ==
    IF IsZero(a) THEN b
    ELSE IF IsZero(b) THEN a
    ELSE LET n == IF Len(a) > Len(b) THEN Len(a) ELSE Len(b)
             ca(i) == IF i > n - Len(a) THEN a[i - (n - Len(a))] ELSE 0
             cb(i) == IF i > n - Len(b) THEN b[i - (n - Len(b))] ELSE 0
         IN  ModulusPoly([i \in 1..n |-> FieldAdd(p, ca(i), cb(i))])

PolyNegative(p, a) == ModulusPoly([i \in 1..Len(a) |-> FieldSubtract(p, 0, a[i])])

PolySubtract(p, a, b) == IF IsZero(b) THEN a ELSE PolyAdd(p, a, PolyNegative(p, b))

RECURSIVE SumProducts(_, _, _, _, _)
\* coefficient `idx` (1-based, highest first) of the product a*b
SumProducts(p, a, b, idx, i) ==
    IF i > Len(a) THEN 0
    ELSE LET j == idx + 1 - i
             term == IF j >= 1 /\ j <= Len(b) THEN FieldMultiply(p, a[i], b[j]) ELSE 0
         IN  FieldAdd(p, term, SumProducts(p, a, b, idx, i + 1))

PolyMultiply(p, a, b) ==
    IF IsZero(a) \/ IsZero(b) THEN PolyZero
    ELSE ModulusPoly([idx \in 1..(Len(a) + Len(b) - 1) |-> SumProducts(p, a, b, idx, 1)])

PolyMultiplyScalar(p, a, s) ==
    IF s = 0 THEN PolyZero
    ELSE IF s = 1 THEN a
    ELSE ModulusPoly([i \in 1..Len(a) |-> FieldMultiply(p, a[i], s)])

MultiplyByMonomial(p, a, degree, coefficient) ==
    IF coefficient = 0 THEN PolyZero
    ELSE ModulusPoly([i \in 1..(Len(a) + degree) |->
             IF i <= Len(a) THEN FieldMultiply(p, a[i], coefficient) ELSE 0])

BuildMonomial(degree, coefficient) ==
    IF coefficient = 0 THEN PolyZero
    ELSE Vector([i \in 1..(degree + 1) |-> IF i = 1 THEN coefficient ELSE 0])

(***************************************************************************)
(* RunEuclideanAlgorithm (ReedSolomonModulusDecoder.cpp:17-64).            *)
(***************************************************************************)
RECURSIVE DivideLoop(_, _, _, _, _)
\* the inner while loop: long division of r by rLast, quotient accumulated in q
DivideLoop(p, r, q, rLast, dltInverse) ==
    IF Degree(r) >= Degree(rLast) /\ ~IsZero(r)
    THEN LET degreeDiff == Degree(r) - Degree(rLast)
             scale == FieldMultiply(p, Coefficient(r, Degree(r)), dltInverse)
         IN  DivideLoop(p,
                        PolySubtract(p, r, MultiplyByMonomial(p, rLast, degreeDiff, scale)),
                        PolyAdd(p, q, BuildMonomial(degreeDiff, scale)),
                        rLast, dltInverse)
    ELSE [q |-> q, r |-> r]

EuclidFailure(crash) == [ok |-> FALSE, sigma |-> PolyZero, omega |-> PolyZero, crash |-> crash]

\* variant: the loop stops at r.degree() < R, i.e. before its first round
EuclidStopsBelowR(r, R) == Degree(r) < R

\* the loop of RunEuclideanAlgorithm stops as soon as r.degree() < R / 2
EuclidStops(r, R) == Degree(r) < R \div 2

RECURSIVE EuclidLoop(_, _, _, _, _, _)
EuclidLoop(p, R, rLast, r, tLast, t) ==
    IF ~EuclidStops(r, R)
    THEN \* rLastLast = rLast; tLastLast = tLast; rLast = r; tLast = t;
         IF IsZero(r) THEN EuclidFailure(FALSE)
         ELSE LET denominatorLeadingTerm == Coefficient(r, Degree(r))
                  dltInverse == FieldInverse(p, denominatorLeadingTerm)
                  d == DivideLoop(p, rLast, PolyZero, r, dltInverse)
                  tNew == PolyNegative(p, PolySubtract(p, PolyMultiply(p, d.q, t), tLast))
              IN  IF denominatorLeadingTerm = 0 THEN EuclidFailure(TRUE)
                  ELSE EuclidLoop(p, R, r, d.r, t, tNew)
    ELSE LET sigmaTildeAtZero == Coefficient(t, 0)
             inverse == FieldInverse(p, sigmaTildeAtZero)
         IN  IF sigmaTildeAtZero = 0 THEN EuclidFailure(FALSE)
             ELSE [ok |-> TRUE,
                   sigma |-> PolyMultiplyScalar(p, t, inverse),
                   omega |-> PolyMultiplyScalar(p, r, inverse),
                   crash |-> FALSE]

RunEuclideanAlgorithm(p, a, b, R) ==
    LET a1 == IF Degree(a) < Degree(b) THEN b ELSE a
        b1 == IF Degree(a) < Degree(b) THEN a ELSE b
    IN  EuclidLoop(p, R, a1, b1, PolyZero, PolyOne)

(***************************************************************************)
(* FindErrorLocations (ReedSolomonModulusDecoder.cpp:66-79): Chien search. *)
(* The loop visits i = 1, 2, ... and stores inverse(i) for every root i    *)
(* until numErrors roots were stored.                                      *)
(***************************************************************************)
RECURSIVE Ascending(_)
Ascending(S) ==
    IF S = {} THEN <<>>
    ELSE LET m == CHOOSE x \in S : \A y \in S : x <= y
         IN  <<m>> \o Ascending(S \ {m})

FindErrorLocations(p, errorLocator) ==
    LET numErrors == Degree(errorLocator)
        roots == IF numErrors = 0 THEN {}
                 ELSE {i \in 1..(p - 1) : EvaluateAt(p, errorLocator, i) = 0}
        found == SubSeq(Ascending(roots), 1,
                        IF Cardinality(roots) < numErrors THEN Cardinality(roots) ELSE numErrors)
    IN  [ok |-> Len(found) = numErrors,
         result |-> Vector([e \in 1..Len(found) |-> FieldInverse(p, found[e])])]

(***************************************************************************)
(* FindErrorMagnitudes (ReedSolomonModulusDecoder.cpp:81-99): Forney.      *)
(***************************************************************************)
FormalDerivative(p, errorLocator) ==
    LET d == Degree(errorLocator)
    IN  IF d = 0 THEN <<>>
        ELSE ModulusPoly([j \in 1..d |->
                 FieldMultiply(p, d + 1 - j, Coefficient(errorLocator, d + 1 - j))])

FindErrorMagnitudes(p, errorEvaluator, errorLocator, errorLocations) ==
    LET formalDerivative == FormalDerivative(p, errorLocator)
        xiInverse(i) == FieldInverse(p, errorLocations[i])
        numerator(i) == FieldSubtract(p, 0, EvaluateAt(p, errorEvaluator, xiInverse(i)))
        derivAt(i) == EvaluateAt(p, formalDerivative, xiInverse(i))
    IN  [result |-> Vector([i \in 1..Len(errorLocations) |->
                        FieldMultiply(p, numerator(i), FieldInverse(p, derivAt(i)))]),
         crash |-> \E i \in 1..Len(errorLocations) :
                        errorLocations[i] = 0 \/ derivAt(i) = 0]

(***************************************************************************)
(* ReedSolomonDecodeModulus (ReedSolomonModulusDecoder.cpp:110-152).       *)
(***************************************************************************)
\* S[numECCodewords - i] = poly.evaluateAt(field.exp(i)), i = numECCodewords .. 1
Syndromes(p, received, numECCodewords) ==
    Vector([j \in 1..numECCodewords |->
        EvaluateAt(p, ModulusPoly(received), FieldExp(p, numECCodewords + 1 - j))])

\* position = receivedSize - 1 - field.log(errorLocations[i]), 0-based
ErrorPosition(p, receivedSize, location) == receivedSize - 1 - FieldLog(p, location)

\* variant: the correction loop without its position guard
PositionNeverRejected(position) == FALSE

\* the guard `if (position < 0) return false;` of the correction loop
PositionRejected(position) == position < 0

RECURSIVE ApplyCorrections(_, _, _, _, _)
\* the correction loop, lines 143-149; `received` keeps what was written before a return
ApplyCorrections(p, received, errorLocations, errorMagnitudes, i) ==
    IF i > Len(errorLocations) THEN [ok |-> TRUE, received |-> received, crash |-> FALSE]
    ELSE LET position == ErrorPosition(p, Len(received), errorLocations[i])
         IN  IF errorLocations[i] = 0
             THEN [ok |-> FALSE, received |-> received, crash |-> TRUE]
             ELSE IF PositionRejected(position)
             THEN [ok |-> FALSE, received |-> received, crash |-> FALSE]
             ELSE IF position < 0 \/ position >= Len(received)
             THEN [ok |-> FALSE, received |-> received, crash |-> TRUE]
             ELSE ApplyCorrections(p,
                      [received EXCEPT ![position + 1] =
                          FieldSubtract(p, received[position + 1], errorMagnitudes[i])],
                      errorLocations, errorMagnitudes, i + 1)

RSResult(ok, received, nbErrors, crash) ==
    [ok |-> ok, received |-> received, nbErrors |-> nbErrors, crash |-> crash]

ReedSolomonDecodeModulus(p, received, numECCodewords, nbErrorsIn) ==
    LET S == Syndromes(p, received, numECCodewords)
        error == \E j \in 1..numECCodewords : S[j] # 0
    IN  IF ~error THEN RSResult(TRUE, received, 0, FALSE)
        ELSE
        LET syndrome == ModulusPoly(S)
            eu == RunEuclideanAlgorithm(p, BuildMonomial(numECCodewords, 1), syndrome, numECCodewords)
        IN  IF ~eu.ok THEN RSResult(FALSE, received, nbErrorsIn, eu.crash)
            ELSE
            LET loc == FindErrorLocations(p, eu.sigma)
            IN  IF ~loc.ok THEN RSResult(FALSE, received, nbErrorsIn, FALSE)
                ELSE
                LET mag == FindErrorMagnitudes(p, eu.omega, eu.sigma, loc.result)
                    ap == ApplyCorrections(p, received, loc.result, mag.result, 1)
                IN  IF mag.crash THEN RSResult(FALSE, received, nbErrorsIn, TRUE)
                    ELSE IF ~ap.ok THEN RSResult(FALSE, ap.received, nbErrorsIn, ap.crash)
                    ELSE RSResult(TRUE, ap.received, Len(loc.result), FALSE)

(***************************************************************************)
(* Inputs: valid codewords (all syndromes at 3^1..3^k zero, i.e. the       *)
(* multiples of g(x) = (x - 3^1)...(x - 3^k)) and error patterns.          *)
(***************************************************************************)
RECURSIVE GeneratorPoly(_, _)
GeneratorPoly(p, k) ==
    IF k = 0 THEN PolyOne
    ELSE PolyMultiply(p, GeneratorPoly(p, k - 1), <<1, FieldSubtract(p, 0, FieldExp(p, k))>>)

\* the codeword of n = Len(msg) + k symbols carrying message polynomial msg
ValidCodeword(p, msg, k) ==
    LET prod == PolyMultiply(p, ModulusPoly(msg), GeneratorPoly(p, k))
        n == Len(msg) + k
    IN  Vector([i \in 1..n |-> IF i > n - Len(prod) THEN prod[i - (n - Len(prod))] ELSE 0])

\* The code is linear, so the decoder's behaviour is fixed by the error
\* pattern; one message per length is enough.
Messages == {[i \in 1..len |-> i] : len \in 1..MaxData}

\* error patterns of weight 1..w on n positions: functions position -> magnitude
ErrorMagnitudes(p) == {1, p - 1}

ErrorPatterns(p, n, w) ==
    UNION {[E -> ErrorMagnitudes(p)] : E \in {E \in SUBSET (1..n) : Cardinality(E) \in 1..w}}

Inject(p, codeword, pattern) ==
    Vector([i \in 1..Len(codeword) |->
        IF i \in DOMAIN pattern THEN FieldAdd(p, codeword[i], pattern[i]) ELSE codeword[i]])

ArbitraryVectors == UNION {[1..n -> 0..MaxArbSym] : n \in 2..MaxArbLen}

(***************************************************************************)
(* SpecRS: one call of ReedSolomonDecodeModulus per behaviour.             *)
(***************************************************************************)
\* no linear reader exists
ODUnused ==
    /\ odPc = "unused"
    /\ odOpts = <<>>
    /\ odCall = <<>>
    /\ odImage = <<>>
    /\ odRotate = FALSE
    /\ odMaxSymbols = 0
    /\ odMinLineCount = 0
    /\ odI = 0
    /\ odCheckRows = <<>>
    /\ odRes = <<>>
    /\ odRows = <<>>
    /\ odResH = <<>>
    /\ odResV = <<>>
    /\ odRotatedRan = FALSE
    /\ odRet = <<>>
    /\ odOrder = <<>>

\* no reader of SpecReaders exists
RDUnused ==
    /\ rdPc = "unused"
    /\ rdOpts = <<>>
    /\ rdReader = "none"
    /\ rdInput = <<>>
    /\ rdMaxSymbols = 0
    /\ rdRet = <<>>

\* no symbology decoder of SpecCodecs is called
GFUnused ==
    /\ gfGuard = <<>>
    /\ gfObject = <<>>
    /\ gfInits = <<>>
    /\ gfThread = <<>>

CDUnused ==
    /\ cdPc = "unused"
    /\ cdFn = "none"
    /\ cdIn = <<>>
    /\ cdOut = <<>>

\* no Reed-Solomon call is made
RSUnused ==
    /\ rsPc = "unused"
    /\ rsField = GF113
    /\ rsK = 0
    /\ rsSent = <<>>
    /\ rsInjected = 0
    /\ rsInput = <<>>
    /\ rsReceived = <<>>
    /\ rsOk = FALSE
    /\ rsNbErrors = NoValue
    /\ rsCrash = FALSE

InitRS ==
    /\ RDUnused
    /\ CDUnused
    /\ GFUnused
    /\ ODUnused
    /\ rsPc = "idle"
    /\ rsField = GF113
    /\ rsK = 0
    /\ rsSent = <<>>
    /\ rsInjected = 0
    /\ rsInput = <<>>
    /\ rsReceived = <<>>
    /\ rsOk = FALSE
    /\ rsNbErrors = NoValue
    /\ rsCrash = FALSE

RSCall(p, k, sent, injected, received) ==
    \E out \in {ReedSolomonDecodeModulus(p, received, k, NoValue)} :
        /\ rsPc = "idle"
        /\ rsPc' = "done"
        /\ rsField' = p
        /\ rsK' = k
        /\ rsSent' = sent
        /\ rsInjected' = injected
        /\ rsInput' = received
        /\ rsReceived' = out.received
        /\ rsOk' = out.ok
        /\ rsNbErrors' = out.nbErrors
        /\ rsCrash' = out.crash
        /\ UNCHANGED <<odVars, rdVars, cdVars, gfVars>>

\* the decoder is handed an untouched valid codeword
DecodeValid ==
    \E p \in Fields, k \in 1..MaxEC, msg \in Messages :
        \E c \in {ValidCodeword(p, msg, k)} :
            RSCall(p, k, c, 0, c)

\* the decoder is handed a valid codeword with 1..floor(k/2)+1 symbols changed
DecodeCorrupted ==
    \E p \in Fields, k \in 1..MaxEC, msg \in Messages :
        \E c \in {ValidCodeword(p, msg, k)} :
            \E e \in ErrorPatterns(p, Len(c), (k \div 2) + 1) :
                \E r \in {Inject(p, c, e)} :
                    RSCall(p, k, c, Cardinality(DOMAIN e), r)

\* the decoder is handed an arbitrary vector over the field
DecodeArbitrary ==
    \E p \in Fields, r \in ArbitraryVectors :
        \E k \in 1..(IF Len(r) - 1 < MaxEC THEN Len(r) - 1 ELSE MaxEC) :
            RSCall(p, k, <<>>, 0, r)

NextRS == DecodeValid \/ DecodeCorrupted \/ DecodeArbitrary

SpecRS == InitRS /\ [][NextRS]_vars

(***************************************************************************)
(* Properties of the Reed-Solomon decoder (SpecRS).                        *)
(***************************************************************************)
RSDone == rsPc = "done"

\* the call decoded a valid codeword into which rsInjected symbols were changed
RSFromCodeword == RSDone /\ rsSent # <<>>

SyndromesAllZero(p, received, numECCodewords) ==
    \A j \in 1..numECCodewords : Syndromes(p, received, numECCodewords)[j] = 0

\* C1: a valid codeword with at most floor(k/2) changed symbols is decoded
\* with success and `received` is again the original codeword.
C1_CorrectsUpToHalfK ==
    (RSFromCodeword /\ rsInjected <= rsK \div 2)
        => (rsOk /\ rsReceived = rsSent)

C1_Witness ==
    /\ RSFromCodeword
    /\ rsInjected = 2
    /\ rsInjected <= rsK \div 2
    /\ rsInput # rsSent
    /\ rsOk
    /\ rsReceived = rsSent
    /\ rsField = GF929

\* C6: whenever the decoder returns success, all numECCodewords syndromes of
\* the resulting `received` are zero.
C6_SuccessHasZeroSyndromes ==
    (RSDone /\ rsOk) => SyndromesAllZero(rsField, rsReceived, rsK)

\* C7: for a codeword with floor(k/2)+1 changed symbols, and for any received
\* vector, the decoder returns success or failure without indexing outside
\* `received` and without taking the inverse or logarithm of zero.
C7_NeverCrashes == RSDone => ~rsCrash

\* floor(k/2)+1 errors: the correction loop wrote one symbol and then met a
\* location whose position is negative, and the call returned failure
C7_Witness ==
    /\ RSFromCodeword
    /\ rsInjected = (rsK \div 2) + 1
    /\ ~rsOk
    /\ rsReceived # rsInput
    /\ ~rsCrash

\* C28: when the decoder returns failure, `received` is what it was on entry;
\* the codeword is modified only on a successful return.
C28_FailureLeavesReceived == (RSDone /\ ~rsOk) => rsReceived = rsInput

\* C29: whenever the decoder returns success, the reported nbErrors is at most
\* floor(numECCodewords / 2), for even and odd numECCodewords alike.
C29_NbErrorsAtMostHalfK == (RSDone /\ rsOk) => rsNbErrors <= rsK \div 2

(***************************************************************************)
(* Linear dispatch: OneD::Reader, DoDecode (ODReader.cpp:224-431).         *)
(*                                                                         *)
(* An image is described by the symbols printed on it.  A symbol occupies  *)
(* the rows top..bot of the orientation it is readable in, and one of the  *)
(* x-ranges ("slot") of a row.  decodePattern on a row inside top..bot     *)
(* yields the symbol, with an error when the symbol is damaged; `rev`      *)
(* tells that the reversed row yields it as well.                          *)
(***************************************************************************)
MaxMinLineCount == 2   \* ReaderOptions.minLineCount ranges over 1..MaxMinLineCount
MaxMaxSymbols == 2     \* the maxSymbols argument ranges over 0..MaxMaxSymbols
SmallSide == 3         \* side of the small image
MidSide == 64          \* width of the large image
LargeSide == 100       \* height of the large image
HugeSide == 513        \* height of the image on which tryHarder steps by two rows

Min(a, b) == IF a < b THEN a ELSE b
Max(a, b) == IF a > b THEN a ELSE b
Abs(a) == IF a < 0 THEN -a ELSE a

\* Barcode() : format None, no error, no position, line count 0
NoBarcode == [id |-> 0, err |-> FALSE, slot |-> 0, top |-> 0, bot |-> 0, lineCount |-> 0]

\* Barcode::isValid(): a format and no error
IsValid(b) == b.id # 0 /\ ~b.err

\* line 314: result.isValid() || (returnErrors && result.error())
Accepted(result, returnErrors) == IsValid(result) \/ (returnErrors /\ result.err)

IncrementLineCount(b) == [b EXCEPT !.lineCount = @ + 1]

\* Barcode::operator== : same format and text, overlapping x-range
SameBarcode(a, b) == a.id = b.id /\ a.slot = b.slot

\* HaveIntersectingBoundingBoxes: x-ranges and y-ranges both overlap; the
\* default position of Barcode() lies left of every symbol's quiet zone
HaveIntersectingBoundingBoxes(a, b) ==
    /\ a.id # 0 /\ b.id # 0
    /\ a.slot = b.slot
    /\ ~(Max(b.top, b.bot) < Min(a.top, a.bot) \/ Min(b.top, b.bot) > Max(a.top, a.bot))

\* lines 235-247
PassHeight(image, rotate) == IF rotate THEN image.width ELSE image.height
Middle(height) == height \div 2
RowStep(height, tryHarder, isPure, maxSymbols) ==
    Max(1, height \div (IF tryHarder /\ ~isPure
                          THEN (IF maxSymbols = 1 THEN 256 ELSE 512)
                          ELSE 32))
MaxLines(height, tryHarder) == IF tryHarder THEN height ELSE 15
EffectiveMinLineCount(isPure, minLineCount, height) ==
    IF isPure THEN 1 ELSE Min(minLineCount, height)

\* variant: the first step goes below the middle
RowNumberBelowFirst(i, middle, rowStep) ==
    LET rowStepsAboveOrBelow == (i + 1) \div 2
        isAbove == i % 2 = 1
    IN  middle + rowStep * (IF isAbove THEN rowStepsAboveOrBelow ELSE -rowStepsAboveOrBelow)

\* lines 260-262: rows from the middle outward
RowNumber(i, middle, rowStep) ==
    LET rowStepsAboveOrBelow == (i + 1) \div 2
        isAbove == i % 2 = 0
    IN  middle + rowStep * (IF isAbove THEN rowStepsAboveOrBelow ELSE -rowStepsAboveOrBelow)

\* lines 360-364
CheckRowsFor(rowNumber, rowStep) ==
    <<rowNumber - 1, rowNumber + 1>>
        \o (IF rowStep > 2 THEN <<rowNumber - 2, rowNumber + 2>> ELSE <<>>)

\* what decodePattern returns for a symbol seen on row rowNumber
DecodePattern(sym, rowNumber) ==
    [id |-> sym.id, err |-> sym.err, slot |-> sym.slot,
     top |-> rowNumber, bot |-> rowNumber, lineCount |-> 0]

\* PatternView over the bars of a row: index() of the view's first element
\* (bars at even indexes), RowBars elements in the row; the symbol of x-range
\* `slot` begins at the bar SlotIndex(slot)
RowBars == 8
SlotIndex(slot) == 4 * (slot - 1)

\* lines 373-375: next.shift(2 - (next.index() % 2)), the index of the view
\* after it
Shift(index) == index + (2 - (index % 2))

RECURSIVE DoWhile(_, _, _, _)
\* the do/while at 311-376 for reader r with the view at index: decodePattern
\* moves the view to the first symbol of the reader at or after the view and
\* returns it, or finds none and leaves an empty view; then the view is
\* shifted and extended to the end of the row
DoWhile(seen, r, index, tryHarder) ==
    LET ahead == {k \in 1 .. Len(seen) : seen[k].id = r /\ SlotIndex(seen[k].slot) >= index}
        k == CHOOSE j \in ahead :
                 \A m \in ahead : SlotIndex(seen[j].slot) <= SlotIndex(seen[m].slot)
        next == Shift(SlotIndex(seen[k].slot))
    IN  IF ahead = {} THEN <<>>
        ELSE <<seen[k]>> \o (IF tryHarder /\ RowBars - next > 0
                             THEN DoWhile(seen, r, next, tryHarder)
                             ELSE <<>>)

RECURSIVE ReadersLoop(_, _, _, _)
\* the loop over the readers at 305-377: one reader per symbology, in the
\* order of the symbologies
ReadersLoop(seen, r, last, tryHarder) ==
    IF r > last THEN <<>>
    ELSE DoWhile(seen, r, 0, tryHarder) \o ReadersLoop(seen, r + 1, last, tryHarder)

\* the results decodePattern yields on a row for one direction, in the
\* order of the loops at 305 and 311
RowResults(syms, rowNumber, upsideDown, tryHarder) ==
    LET seen == SelectSeq(syms, LAMBDA s : s.top <= rowNumber /\ rowNumber <= s.bot
                                           /\ (upsideDown => s.rev))
        last == IF Len(seen) = 0 THEN 0
                ELSE CHOOSE r \in {seen[k].id : k \in 1 .. Len(seen)} :
                         \A k \in 1 .. Len(seen) : seen[k].id <= r
        found == ReadersLoop(seen, 1, last, tryHarder)
    IN  [k \in 1..Len(found) |-> DecodePattern(found[k], rowNumber)]

\* lines 335-346: merge the position of a known symbol with a new sighting
MergePosition(other, result, rotate) ==
    LET dTop == Abs(other.top - result.top)
        dBot == Abs(other.bot - result.top)
    IN  IF dTop < dBot \/ (dTop = dBot /\ (rotate # (other.top > result.top)))
        THEN [other EXCEPT !.top = result.top]
        ELSE [other EXCEPT !.bot = result.bot]

\* variant: no entry is ever recognised as known
FindKnownNever(res, result) == 0

\* index of the first entry of res equal to result, 0 if none (line 333)
FindKnown(res, result) ==
    IF \E k \in 1..Len(res) : SameBarcode(result, res[k])
    THEN CHOOSE k \in 1..Len(res) :
             /\ SameBarcode(result, res[k])
             /\ \A j \in 1..(k - 1) : ~SameBarcode(result, res[j])
    ELSE 0

\* lines 367-369: number of entries with lineCount >= minLineCount
Confirmed(res, minLineCount) ==
    Cardinality({k \in 1..Len(res) : res[k].lineCount >= minLineCount})

\* variant: no early exit
MaxSymbolsNeverReached(res, maxSymbols, minLineCount) == FALSE

\* the early exit test at 367
MaxSymbolsReached(res, maxSymbols, minLineCount) ==
    maxSymbols # 0 /\ Confirmed(res, minLineCount) = maxSymbols

\* variant: a first sighting on a check row adds check rows as well
AddsCheckRowsAlways(isCheckRow, minLineCount, rowStep) == minLineCount > 1 /\ rowStep > 1

\* line 360: whether a symbol not seen before adds check rows
AddsCheckRows(isCheckRow, minLineCount, rowStep) ==
    ~isCheckRow /\ minLineCount > 1 /\ rowStep > 1

\* lines 314-371 for one result of decodePattern
HandleResult(st, found, rowNumber, isCheckRow, rowStep, rotate, maxSymbols, minLineCount, returnErrors) ==
    IF ~Accepted(found, returnErrors) THEN st
    ELSE LET result == IncrementLineCount(found)
             k == FindKnown(st.res, result)
             res1 == IF k > 0
                     THEN [st.res EXCEPT ![k] =
                              IncrementLineCount(MergePosition(@, result, rotate))]
                     ELSE Append(st.res, result)
             checkRows1 == IF k = 0 /\ AddsCheckRows(isCheckRow, minLineCount, rowStep)
                           THEN CheckRowsFor(rowNumber, rowStep)
                           ELSE st.checkRows
             \* history of first sightings and of line counts reaching minLineCount
             key == <<result.id, result.slot>>
             wasConfirmed == k > 0 /\ st.res[k].lineCount >= minLineCount
             isConfirmed == res1[IF k > 0 THEN k ELSE Len(res1)].lineCount >= minLineCount
             order1 == [seen |-> IF k = 0 THEN Append(st.order.seen, key)
                                 ELSE st.order.seen,
                        confirmed |-> IF isConfirmed /\ ~wasConfirmed
                                      THEN Append(st.order.confirmed, key)
                                      ELSE st.order.confirmed]
         IN  [res |-> res1, checkRows |-> checkRows1,
              out |-> MaxSymbolsReached(res1, maxSymbols, minLineCount),
              order |-> order1]

RECURSIVE HandleRow(_, _, _, _, _, _, _, _, _, _)
\* the results of one row, one after the other, until `goto out`
HandleRow(st, results, n, rowNumber, isCheckRow, rowStep, rotate, maxSymbols, minLineCount, returnErrors) ==
    IF n > Len(results) \/ st.out THEN st
    ELSE HandleRow(HandleResult(st, results[n], rowNumber, isCheckRow, rowStep, rotate,
                                maxSymbols, minLineCount, returnErrors),
                   results, n + 1, rowNumber, isCheckRow, rowStep, rotate, maxSymbols,
                   minLineCount, returnErrors)

\* variant: nothing is erased
EraseNothing(res, minLineCount) == res

\* lines 381-388
EraseLowLineCount(res, minLineCount) ==
    SelectSeq(res, LAMBDA r : r.lineCount >= minLineCount)

RECURSIVE RemoveOverlaps(_, _, _)
\* lines 390-394: of two intersecting symbols the one with the lower line
\* count becomes Barcode(); on a tie the later one
RemoveOverlaps(res, a, b) ==
    IF a > Len(res) THEN res
    ELSE IF b > Len(res) THEN RemoveOverlaps(res, a + 1, a + 2)
    ELSE IF HaveIntersectingBoundingBoxes(res[a], res[b])
    THEN RemoveOverlaps([res EXCEPT ![IF res[a].lineCount < res[b].lineCount THEN a ELSE b]
                                        = NoBarcode], a, b + 1)
    ELSE RemoveOverlaps(res, a, b + 1)

\* lines 396-401
EraseNone(res) == SelectSeq(res, LAMBDA r : r.id # 0)

\* variant: the list is returned back to front
PassResultReversed(res, minLineCount) ==
    LET kept == EraseNone(RemoveOverlaps(EraseLowLineCount(res, minLineCount), 1, 2))
    IN  [n \in 1 .. Len(kept) |-> kept[Len(kept) + 1 - n]]

\* the part of DoDecode after the label out: (lines 380-407)
PassResult(res, minLineCount) ==
    EraseNone(RemoveOverlaps(EraseLowLineCount(res, minLineCount), 1, 2))

FirstOrDefault(results) == IF Len(results) = 0 THEN <<>> ELSE <<results[1]>>

(***************************************************************************)
(* Inputs of the linear dispatch.                                          *)
(***************************************************************************)
Symbol(id, err, slot, top, bot, rev) ==
    [id |-> id, err |-> err, slot |-> slot, top |-> top, bot |-> bot, rev |-> rev]

\* the symbols readable in an orientation of height h: none, one, two or three
ScenesFor(h) ==
    LET mid == h \div 2
        lo == Max(0, mid - 1)
        hi == Min(h - 1, mid + 1)
        firsts == {Symbol(1, FALSE, 1, 0, h - 1, FALSE),
                   Symbol(1, FALSE, 1, lo, hi, FALSE),
                   Symbol(1, TRUE, 1, 0, h - 1, FALSE),
                   Symbol(1, FALSE, 1, 0, h - 1, TRUE)}
        seconds == {Symbol(2, FALSE, 1, 0, h - 1, FALSE),
                    Symbol(2, FALSE, 2, lo, hi, FALSE),
                    Symbol(2, FALSE, 2, 0, h - 1, FALSE)}
        \* three symbols in one x-range, stacked so that the first and the
        \* third both touch the second but not each other
        stacked == <<Symbol(1, FALSE, 1, Max(0, mid - 1), mid, FALSE),
                     Symbol(2, FALSE, 1, mid, hi, FALSE),
                     Symbol(6, FALSE, 1, hi, hi, FALSE)>>
        \* a symbol three rows high around the fifteenth regular row
        edge == mid + 7 * Max(1, h \div 32)
        atEdge == IF edge + 1 < h THEN {<<Symbol(1, FALSE, 1, edge - 1, edge + 1, FALSE)>>}
                  ELSE {}
        \* two symbols of one symbology side by side
        twins == <<Symbol(1, FALSE, 1, 0, h - 1, FALSE), Symbol(1, FALSE, 2, 0, h - 1, FALSE)>>
    IN  {<<>>} \cup {<<a>> : a \in firsts} \cup {<<a, b>> : a \in firsts, b \in seconds}
               \cup {stacked, twins} \cup atEdge

RotatedScenesFor(h) ==
    {<<>>, <<Symbol(3, FALSE, 1, 0, h - 1, FALSE), Symbol(4, FALSE, 2, 0, h - 1, FALSE)>>}

ImageSizes == {<<SmallSide, SmallSide>>, <<MidSide, LargeSide>>}

\* a symbol on the topmost row, or on the two topmost rows
TopEdgeScenes == {<<Symbol(1, FALSE, 1, 0, 0, FALSE)>>, <<Symbol(1, FALSE, 1, 0, 1, FALSE)>>}

Images ==
    UNION {{[width |-> d[1], height |-> d[2], symsH |-> sh, symsV |-> sv] :
               sh \in ScenesFor(d[2]), sv \in RotatedScenesFor(d[1])} : d \in ImageSizes}
    \cup {[width |-> SmallSide, height |-> HugeSide, symsH |-> sh, symsV |-> <<>>] :
               sh \in TopEdgeScenes}

ReaderOptions ==
    [tryHarder : BOOLEAN, tryRotate : BOOLEAN, isPure : BOOLEAN, returnErrors : BOOLEAN,
     minLineCount : 1..MaxMinLineCount]

(***************************************************************************)
(* SpecLinear: a reader built with some options serves one decode call.    *)
(***************************************************************************)
InitLinear ==
    /\ RSUnused
    /\ RDUnused
    /\ CDUnused
    /\ GFUnused
    /\ odPc = "idle"
    /\ odOpts \in ReaderOptions
    /\ odCall = <<>>
    /\ odImage = <<>>
    /\ odRotate = FALSE
    /\ odMaxSymbols = 0
    /\ odMinLineCount = 0
    /\ odI = 0
    /\ odCheckRows = <<>>
    /\ odRes = <<>>
    /\ odRows = <<>>
    /\ odResH = <<>>
    /\ odResV = <<>>
    /\ odRotatedRan = FALSE
    /\ odRet = <<>>
    /\ odOrder = [seen |-> <<>>, confirmed |-> <<>>]

\* entry of DoDecode, lines 227-248
EnterDoDecode(image, rotate, maxSymbols) ==
    /\ odPc' = "loop"
    /\ odRotate' = rotate
    /\ odMaxSymbols' = maxSymbols
    /\ odMinLineCount' =
           EffectiveMinLineCount(odOpts.isPure, odOpts.minLineCount, PassHeight(image, rotate))
    /\ odI' = 0
    /\ odCheckRows' = <<>>
    /\ odRes' = <<>>
    /\ odRows' = <<>>

\* Reader::decode(image), line 412
DecodeSingle ==
    \E image \in Images :
        /\ odPc = "idle"
        /\ odCall' = [api |-> "single", maxSymbols |-> 1]
        /\ odImage' = image
        /\ EnterDoDecode(image, FALSE, 1)
        /\ UNCHANGED <<odOpts, odResH, odResV, odRotatedRan, odRet, odOrder, rsVars, rdVars, cdVars, gfVars>>

\* Reader::decode(image, maxSymbols), line 423
DecodeMulti ==
    \E image \in Images, maxSymbols \in 0..MaxMaxSymbols :
        /\ odPc = "idle"
        /\ odCall' = [api |-> "multi", maxSymbols |-> maxSymbols]
        /\ odImage' = image
        /\ EnterDoDecode(image, FALSE, maxSymbols)
        /\ UNCHANGED <<odOpts, odResH, odResV, odRotatedRan, odRet, odOrder, rsVars, rdVars, cdVars, gfVars>>

\* one iteration of the row loop, lines 257-379
ScanRow ==
    LET height == PassHeight(odImage, odRotate)
        rowStep == RowStep(height, odOpts.tryHarder, odOpts.isPure, odMaxSymbols)
        regular == RowNumber(odI, Middle(height), rowStep)
        offImage == regular < 0 \/ regular >= height
        isCheckRow == Len(odCheckRows) > 0
        i == IF isCheckRow THEN odI - 1 ELSE odI
        rowNumber == IF isCheckRow THEN odCheckRows[Len(odCheckRows)] ELSE regular
        checkRows0 == IF isCheckRow THEN SubSeq(odCheckRows, 1, Len(odCheckRows) - 1)
                      ELSE odCheckRows
        syms == IF odRotate THEN odImage.symsV ELSE odImage.symsH
        \* line 301: a pure symbol is only looked for on the first row
        results == IF odOpts.isPure /\ i # 0 THEN <<>>
                   ELSE RowResults(syms, rowNumber, FALSE, odOpts.tryHarder)
                        \o RowResults(syms, rowNumber, TRUE, odOpts.tryHarder)
        st == HandleRow([res |-> odRes, checkRows |-> checkRows0, out |-> FALSE,
                         order |-> odOrder],
                        results, 1, rowNumber, isCheckRow, rowStep, odRotate, odMaxSymbols,
                        odMinLineCount, odOpts.returnErrors)
    IN  /\ odPc = "loop"
        /\ IF odI >= MaxLines(height, odOpts.tryHarder) \/ offImage
           THEN \* the loop ends (line 257) or breaks (line 266)
                /\ odPc' = "out"
                /\ UNCHANGED <<odI, odCheckRows, odRes, odRows, odOrder>>
           ELSE IF isCheckRow /\ (rowNumber < 0 \/ rowNumber >= height)
           THEN \* line 275: continue
                /\ odCheckRows' = checkRows0
                /\ UNCHANGED <<odPc, odI, odRes, odRows, odOrder>>
           ELSE /\ odRows' = Append(odRows, <<rowNumber, isCheckRow>>)
                /\ odRes' = st.res
                /\ odOrder' = st.order
                /\ odCheckRows' = st.checkRows
                /\ odPc' = IF st.out THEN "out" ELSE "loop"
                /\ odI' = i + 1
        /\ UNCHANGED <<odOpts, odCall, odImage, odRotate, odMaxSymbols, odMinLineCount,
                       odResH, odResV, odRotatedRan, odRet, rsVars, rdVars, cdVars, gfVars>>

\* variant: the rotated pass is run whenever tryRotate is set
RotateWheneverAsked(api, maxSymbols, found, tryRotate) == tryRotate

\* the conditions under which Reader::decode runs the rotated pass:
\* line 415 (result.empty() && tryRotate) and
\* line 425 ((!maxSymbols || Size(resH) < maxSymbols) && tryRotate)
RotateAgain(api, maxSymbols, found, tryRotate) ==
    IF api = "single"
    THEN found = 0 /\ tryRotate
    ELSE (maxSymbols = 0 \/ found < maxSymbols) /\ tryRotate

\* DoDecode from the label out: to its return, and what Reader::decode does
\* with the returned list (lines 380-407, 415-418, 425-430)
FinishPass ==
    LET res == PassResult(odRes, odMinLineCount)
    IN  /\ odPc = "out"
        /\ IF ~odRotate
           THEN /\ odResH' = res
                /\ IF RotateAgain(odCall.api, odCall.maxSymbols, Len(res), odOpts.tryRotate)
                   THEN /\ odRotatedRan' = TRUE
                        /\ EnterDoDecode(odImage, TRUE,
                               IF odCall.api = "single" THEN 1
                               ELSE odCall.maxSymbols - Len(res))
                        /\ UNCHANGED <<odRet, odResV>>
                   ELSE /\ odPc' = "done"
                        /\ odRet' = IF odCall.api = "single" THEN FirstOrDefault(res) ELSE res
                        /\ UNCHANGED <<odRotate, odMaxSymbols, odMinLineCount, odI,
                                       odCheckRows, odRes, odRows, odResV, odRotatedRan>>
           ELSE /\ odPc' = "done"
                /\ odResV' = res
                /\ odRet' = IF odCall.api = "single" THEN FirstOrDefault(res)
                            ELSE odResH \o res
                /\ UNCHANGED <<odRotate, odMaxSymbols, odMinLineCount, odI, odCheckRows,
                               odRes, odRows, odResH, odRotatedRan>>
        /\ UNCHANGED <<odOpts, odCall, odImage, odOrder, rsVars, rdVars, cdVars, gfVars>>

\* PharmacodeTwoTrackReader::decode(image, maxSymbols)
\* (ODPharmacodeTwoTrackReader.cpp:342-369); decodeInternal finds a valid
\* symbol in an orientation or it does not
TwoTrackDecode ==
    \E maxSymbols \in 0..MaxMaxSymbols, normalValid \in BOOLEAN, rotatedValid \in BOOLEAN :
        LET barcode(top) == [id |-> 5, err |-> FALSE, slot |-> 1, top |-> top, bot |-> top,
                             lineCount |-> 1]
            resH == IF normalValid THEN <<barcode(0)>> ELSE <<>>
            returnsEarly == normalValid /\ maxSymbols = 1
            rotates == ~returnsEarly /\ odOpts.tryRotate
            resV == IF rotates /\ rotatedValid THEN <<barcode(1)>> ELSE <<>>
        IN  /\ odPc = "idle"
            /\ odPc' = "done"
            /\ odCall' = [api |-> "twotrack", maxSymbols |-> maxSymbols]
            /\ odResH' = resH
            /\ odRotatedRan' = rotates
            /\ odRotate' = rotates
            /\ odResV' = resV
            /\ odRet' = resH \o resV
            /\ UNCHANGED <<odOpts, odImage, odMaxSymbols, odMinLineCount, odI, odCheckRows,
                           odRes, odRows, odOrder, rsVars, rdVars, cdVars, gfVars>>

NextLinear == DecodeSingle \/ DecodeMulti \/ ScanRow \/ FinishPass \/ TwoTrackDecode

SpecLinear == InitLinear /\ [][NextLinear]_vars

\* a call that was started runs on: the row loop takes its next iteration and
\* the code after the loop is executed.  ScanRow is enabled exactly when
\* odPc = "loop" and each of its steps changes odPc, odCheckRows or odRows, so
\* WF_vars(ScanRow) is written out with odPc = "loop" for ENABLED <<ScanRow>>_vars
ScanRowFair == []<>(odPc # "loop") \/ []<><<ScanRow>>_vars

SpecLinearFair == SpecLinear /\ ScanRowFair /\ WF_vars(FinishPass)

(***************************************************************************)
(* Properties of the linear dispatch (SpecLinear).                         *)
(***************************************************************************)
ODDone == odPc = "done"

\* C8: for maxSymbols > 0, Reader::decode(image, maxSymbols) returns at most
\* maxSymbols barcodes, default-orientation and rotated pass together.
C8_AtMostMaxSymbols ==
    (ODDone /\ odCall.api = "multi" /\ odCall.maxSymbols > 0)
        => Len(odRet) <= odCall.maxSymbols

\* both passes contributed and the limit was met exactly, with a symbol to spare
C8_Witness ==
    /\ ODDone
    /\ odCall.api = "multi"
    /\ odCall.maxSymbols = 2
    /\ Len(odResH) = 1
    /\ Len(odResV) = 1
    /\ Len(odImage.symsV) = 2
    /\ Len(odRet) = 2

\* C9: every barcode a DoDecode pass returns has a line count of at least
\* the effective minimum: 1 when isPure, else min(minLineCount, height).
C9_LineCountAtLeastMinimum ==
    (odPc \in {"loop", "out", "done"} /\ odCall.api # "twotrack") =>
        /\ \A k \in 1..Len(odResH) :
               odResH[k].lineCount >=
                   EffectiveMinLineCount(odOpts.isPure, odOpts.minLineCount,
                                         PassHeight(odImage, FALSE))
        /\ \A k \in 1..Len(odResV) :
               odResV[k].lineCount >=
                   EffectiveMinLineCount(odOpts.isPure, odOpts.minLineCount,
                                         PassHeight(odImage, TRUE))

\* the pass ended with a symbol seen on fewer rows than required; it was
\* erased and another symbol was returned
C9_Witness ==
    /\ ODDone
    /\ odCall.api = "multi"
    /\ ~odRotate
    /\ odMinLineCount = 2
    /\ \E k \in 1..Len(odRes) : odRes[k].lineCount < odMinLineCount
    /\ Len(odResH) = 1
    /\ odRet = odResH

\* C10 as stated: a rotated pass is run only if tryRotate is set and the
\* default-orientation pass found no symbol.
C10_RotatedOnlyIfNothingFound ==
    odRotatedRan => (odOpts.tryRotate /\ Len(odResH) = 0)

\* C10 as the code has it: a rotated pass is run only if tryRotate is set and
\* the default-orientation pass returned fewer symbols than asked for: none
\* for decode(image); fewer than maxSymbols, or any number when maxSymbols
\* is 0, for decode(image, maxSymbols).
C10_RotatedOnlyIfFewerThanAsked ==
    odRotatedRan =>
        /\ odOpts.tryRotate
        /\ IF odCall.api = "single" THEN Len(odResH) = 0
           ELSE odCall.maxSymbols = 0 \/ Len(odResH) < odCall.maxSymbols

\* decode(image, 2) found one symbol in the default orientation and went on
\* to the rotated pass
C10_Witness ==
    /\ ODDone
    /\ odCall.api = "multi"
    /\ odCall.maxSymbols = 2
    /\ odRotatedRan
    /\ Len(odResH) = 1


\* C11 as stated: the symbols of a decode call are returned in the order in
\* which their line counts reached the minimum line count.
C11_ReturnedInConfirmationOrder ==
    LET key(b) == <<b.id, b.slot>>
        pos(b) == CHOOSE n \in 1 .. Len(odOrder.confirmed) : odOrder.confirmed[n] = key(b)
    IN  (ODDone /\ odCall.api \in {"single", "multi"})
            => \A i \in 1 .. Len(odRet) : \A j \in (i + 1) .. Len(odRet) :
                   pos(odRet[i]) < pos(odRet[j])

\* C11 amended: the symbols of a decode call are returned in the order in
\* which they were first accepted on a row (default orientation before the
\* rotated one); with maxSymbols = 1 the returned symbol is the first whose
\* line count reached the minimum line count.
C11_ReturnedInDetectionOrder ==
    LET key(b) == <<b.id, b.slot>>
        pos(b) == CHOOSE n \in 1 .. Len(odOrder.seen) : odOrder.seen[n] = key(b)
    IN  (ODDone /\ odCall.api \in {"single", "multi"})
            => /\ \A i \in 1 .. Len(odRet) : \A j \in (i + 1) .. Len(odRet) :
                      pos(odRet[i]) < pos(odRet[j])
               /\ (odCall.maxSymbols = 1 /\ Len(odRet) > 0)
                      => (Len(odRet) = 1 /\ odOrder.confirmed[1] = key(odRet[1]))

\* two symbols are returned, the second of which was confirmed first
C11_Witness ==
    /\ ODDone
    /\ odCall.api = "multi"
    /\ Len(odRet) = 2
    /\ Len(odOrder.confirmed) >= 2
    /\ odOrder.confirmed[1] = <<odRet[2].id, odRet[2].slot>>
    /\ odOrder.seen[1] = <<odRet[1].id, odRet[1].slot>>

\* the list the DoDecode pass that ended last returned
LastPassReturned == IF odRotate THEN odResV ELSE odResH

\* C21: of every two entries of a DoDecode pass whose line counts reached the
\* minimum line count and whose bounding boxes intersect, the one with the
\* lower line count is not in the list the pass returns.
C21_FewerLinesSuppressed ==
    (ODDone /\ odCall.api \in {"single", "multi"}) =>
        \A a \in 1 .. Len(odRes) : \A b \in 1 .. Len(odRes) :
            (/\ odRes[a].lineCount >= odMinLineCount
             /\ odRes[b].lineCount >= odMinLineCount
             /\ HaveIntersectingBoundingBoxes(odRes[a], odRes[b])
             /\ odRes[a].lineCount < odRes[b].lineCount)
                => \A n \in 1 .. Len(LastPassReturned) : LastPassReturned[n] # odRes[a]

C24_RegularRowsFromMiddleOutward ==
    LET height == PassHeight(odImage, odRotate)
        rowStep == RowStep(height, odOpts.tryHarder, odOpts.isPure, odMaxSymbols)
        last == odRows[Len(odRows)]
        n == Cardinality({k \in 1 .. Len(odRows) : ~odRows[k][2]})
        expected == IF n % 2 = 0 THEN (height \div 2) - (n \div 2) * rowStep
                    ELSE (height \div 2) + ((n - 1) \div 2) * rowStep
    IN  (odPc \in {"loop", "out", "done"} /\ odCall.api \in {"single", "multi"}
                                          /\ Len(odRows) > 0) =>
            /\ rowStep >= 1
            /\ ~last[2] => (last[1] = expected /\ 0 <= last[1] /\ last[1] < height)
            /\ \A k \in 1 .. (Len(odRows) - 1) :
                   (~last[2] \/ ~odRows[k][2]) => odRows[k][1] # last[1]

\* five regular rows three apart were visited, with check rows in between
C24_Witness ==
    /\ odPc = "loop"
    /\ Len(SelectSeq(odRows, LAMBDA r : ~r[2])) = 5
    /\ Len(SelectSeq(odRows, LAMBDA r : r[2])) = 4
    /\ odRows[1] = <<50, FALSE>>
    /\ odRows[Len(odRows)] = <<56, FALSE>>

\* C27: when the row loop of DoDecode has ended without the max-symbols
\* exit, every check row that was scheduled after a first sighting and lies
\* in [0, height) has been scanned: none is still pending.
C27_CheckRowsScannedBeforeLoopEnds ==
    LET height == PassHeight(odImage, odRotate)
    IN  (/\ odPc = "out"
         /\ odCall.api \in {"single", "multi"}
         /\ ~MaxSymbolsReached(odRes, odMaxSymbols, odMinLineCount)) =>
            \A n \in 1 .. Len(odCheckRows) :
                (0 <= odCheckRows[n] /\ odCheckRows[n] < height)
                    => \E k \in 1 .. Len(odRows) : odRows[k] = <<odCheckRows[n], TRUE>>

\* C30: DoDecode terminates: the row loop of every pass reaches the label
\* out:; an iteration that stays in the loop either scans a regular row and
\* advances i, or takes one pending check row off checkRows and leaves i, so
\* that a check row never adds check rows; and the shift after each attempt of
\* the per-reader do/while moves the view forward onto a bar, until nothing
\* of the row is left.
C30_DoDecodeTerminates ==
    /\ (odPc = "loop") ~> (odPc = "out")
    /\ [][(odPc = "loop" /\ odPc' = "loop") =>
              \/ /\ Len(odCheckRows) = 0
                 /\ odI' = odI + 1
              \/ /\ Len(odCheckRows) > 0
                 /\ odI' = odI
                 /\ odCheckRows' = SubSeq(odCheckRows, 1, Len(odCheckRows) - 1)]_vars
    /\ [](\A index \in 0 .. (RowBars - 1) :
              /\ Shift(index) > index
              /\ Shift(index) % 2 = 0)

\* a check row was scanned on which a symbol was seen for the first time
C30_Witness ==
    /\ odPc = "loop"
    /\ Len(odRows) > 1
    /\ odRows[Len(odRows)][2]
    /\ Len(odRes) = 3
    /\ odRes[3].top = odRows[Len(odRows)][1]
    /\ odRes[3].lineCount = 1
    /\ Len(odCheckRows) > 0

(***************************************************************************)
(* The readers' handling of ReaderOptions.formats and returnErrors, and    *)
(* the check digits of the row readers.                                    *)
(*                                                                         *)
(* A returned Barcode is [format, text, error]: error is "None",           *)
(* "Checksum" or "Format".  What detection and decoding make of an image   *)
(* is an input; what a reader does with it is taken from its code.         *)
(***************************************************************************)
AllFormats ==
    {"Aztec", "AztecRune", "QRCode", "UPNQR", "MicroQRCode", "RMQRCode", "GridMatrix",
     "DeutschePostLeitcode", "DeutschePostIdentcode", "POSTNET", "PLANET", "MSI",
     "KoreaPost", "Telepen"}

\* BarcodeFormats::testFlag / testFlags on the set as stored
TestFlag(formats, f) == f \in formats
TestFlags(formats, fs) == formats \cap fs # {}

\* ReaderOptions::hasFormat: an empty set stands for every format
HasFormat(opts, f) == opts.formats = {} \/ TestFlag(opts.formats, f)

\* ODReader.cpp:110: opts.formats().empty() ? BarcodeFormat::Any : opts.formats()
EffectiveFormats(formats) == IF formats = {} THEN AllFormats ELSE formats

NoResult == [format |-> "None", text |-> <<>>, error |-> "None"]
Result(format, text, error) == [format |-> format, text |-> text, error |-> error]

\* Barcode::isValid(): a format and no error
ResultIsValid(b) == b.format # "None" /\ b.error = "None"

\* DecoderResult::isValid(includeErrors); dec is "ok", "empty" or an error
DecoderResultIsValid(dec, includeErrors) ==
    dec = "ok" \/ (includeErrors /\ dec \in {"Checksum", "Format"})
DecoderError(dec) == IF dec \in {"Checksum", "Format"} THEN dec ELSE "None"

(***************************************************************************)
(* Aztec::Reader::decode(image, maxSymbols), AZReader.cpp:27-62.           *)
(* detRess: what Detect found, each with nbLayers = 0 (rune) or not and    *)
(* the outcome of Decode.                                                  *)
(***************************************************************************)
RECURSIVE AZLoop(_, _, _, _, _)
AZLoop(opts, detRess, n, maxSymbols, res) ==
    IF n > Len(detRess) THEN res
    ELSE LET detRes == detRess[n]
             isRune == detRes.nbLayers = 0
             format == IF isRune THEN "AztecRune" ELSE "Aztec"
             res1 == Append(res, Result(format, <<n>>, DecoderError(detRes.dec)))
         IN  IF DecoderResultIsValid(detRes.dec, opts.returnErrors)
             THEN IF maxSymbols > 0 /\ Len(res1) >= maxSymbols THEN res1
                  ELSE AZLoop(opts, detRess, n + 1, maxSymbols, res1)
             ELSE AZLoop(opts, detRess, n + 1, maxSymbols, res)

AZReaderDecode(opts, detRess, maxSymbols) == AZLoop(opts, detRess, 1, maxSymbols, <<>>)

(***************************************************************************)
(* QRCode::Reader, QRReader.cpp.                                           *)
(***************************************************************************)
\* variant: the encoding named by the first ECI is not looked at
IsUPNQRAnyECI(result) ==
    IF result.versionNumber # 15 THEN FALSE
    ELSE IF result.ecLevel # "M" THEN FALSE
    ELSE ~(~result.hasECI \/ Len(result.encodings) = 0)

\* IsUPNQR, lines 30-41
IsUPNQR(result) ==
    IF result.versionNumber # 15 THEN FALSE
    ELSE IF result.ecLevel # "M" THEN FALSE
    ELSE IF ~result.hasECI \/ Len(result.encodings) = 0 THEN FALSE
    ELSE result.encodings[1] = "ISO8859_2"

\* the loop over the finder pattern sets, lines 134-170; st.offered lists
\* the sets handed to SampleQR and whether a result was added for them
RECURSIVE QRSetsLoop(_, _, _, _, _)
QRSetsLoop(opts, fpSets, n, maxSymbols, st) ==
    IF n > Len(fpSets) THEN st
    ELSE LET fpSet == fpSets[n]
             decoderResult == fpSet.dec
             used1 == IF decoderResult.outcome = "ok" THEN st.usedFPs \cup fpSet.fps
                      ELSE st.usedFPs
             isUPN == HasFormat(opts, "UPNQR") /\ IsUPNQR(decoderResult)
             format == IF isUPN THEN "UPNQR" ELSE "QRCode"
             res1 == Append(st.res,
                            Result(format, <<n>>, DecoderError(decoderResult.outcome)))
             offered(added) == Append(st.offered, [fps |-> fpSet.fps, added |-> added])
         IN  IF fpSet.fps \cap st.usedFPs # {}
             THEN QRSetsLoop(opts, fpSets, n + 1, maxSymbols, st)
             ELSE IF ~fpSet.detValid
             THEN QRSetsLoop(opts, fpSets, n + 1, maxSymbols,
                             [st EXCEPT !.offered = offered(FALSE)])
             ELSE IF DecoderResultIsValid(decoderResult.outcome, opts.returnErrors)
                     /\ HasFormat(opts, format)
             THEN IF maxSymbols # 0 /\ Len(res1) = maxSymbols
                  THEN [res |-> res1, usedFPs |-> used1, offered |-> offered(TRUE)]
                  ELSE QRSetsLoop(opts, fpSets, n + 1, maxSymbols,
                                  [res |-> res1, usedFPs |-> used1, offered |-> offered(TRUE)])
             ELSE QRSetsLoop(opts, fpSets, n + 1, maxSymbols,
                             [res |-> st.res, usedFPs |-> used1, offered |-> offered(FALSE)])

\* the loops over allFPs, lines 174-192 and 194-213; cands tells for which
\* finder patterns SampleMQR, respectively SampleRMQR, finds a symbol
RECURSIVE QRSingleFPLoop(_, _, _, _, _, _, _)
QRSingleFPLoop(opts, allFPs, cands, n, maxSymbols, format, st) ==
    IF n > Len(allFPs) THEN st
    ELSE LET fp == allFPs[n]
             found == {k \in 1 .. Len(cands) : cands[k].fp = fp /\ cands[k].detValid}
             cand == cands[CHOOSE k \in found : TRUE]
             res1 == Append(st.res, Result(format, <<fp>>, DecoderError(cand.dec.outcome)))
             offered(added) == Append(st.offered, [fps |-> {fp}, added |-> added])
         IN  IF fp \in st.usedFPs
             THEN QRSingleFPLoop(opts, allFPs, cands, n + 1, maxSymbols, format, st)
             ELSE IF found = {}
             THEN QRSingleFPLoop(opts, allFPs, cands, n + 1, maxSymbols, format,
                                 [st EXCEPT !.offered = offered(FALSE)])
             ELSE IF DecoderResultIsValid(cand.dec.outcome, opts.returnErrors)
             THEN IF maxSymbols # 0 /\ Len(res1) = maxSymbols
                  THEN [st EXCEPT !.res = res1, !.offered = offered(TRUE)]
                  ELSE QRSingleFPLoop(opts, allFPs, cands, n + 1, maxSymbols, format,
                                      [st EXCEPT !.res = res1, !.offered = offered(TRUE)])
             ELSE QRSingleFPLoop(opts, allFPs, cands, n + 1, maxSymbols, format,
                                 [st EXCEPT !.offered = offered(FALSE)])

\* FindFinderPatterns (line 129): the finder patterns of the scene, in order
FindFinderPatterns(scene) ==
    LET fps == UNION {scene.fpSets[k].fps : k \in 1 .. Len(scene.fpSets)}
                   \cup {scene.mqr[k].fp : k \in 1 .. Len(scene.mqr)}
                   \cup {scene.rmqr[k].fp : k \in 1 .. Len(scene.rmqr)}
    IN  [n \in 1 .. Cardinality(fps) |->
            CHOOSE f \in fps : Cardinality({g \in fps : g < f}) = n - 1]

\* Reader::decode(image, maxSymbols), lines 118-216: res, usedFPs and the
\* candidates sampled, at the return
QRReaderDecodeLocals(opts, scene, maxSymbols) ==
    LET allFPs == FindFinderPatterns(scene)
        st0 == [res |-> <<>>, usedFPs |-> {}, offered |-> <<>>]
        st1 == IF HasFormat(opts, "QRCode") \/ HasFormat(opts, "UPNQR")
               THEN QRSetsLoop(opts, scene.fpSets, 1, maxSymbols, st0)
               ELSE st0
        full(st) == maxSymbols # 0 /\ Len(st.res) = maxSymbols
        st2 == IF HasFormat(opts, "MicroQRCode") /\ ~full(st1)
               THEN QRSingleFPLoop(opts, allFPs, scene.mqr, 1, maxSymbols, "MicroQRCode", st1)
               ELSE st1
    IN  IF HasFormat(opts, "RMQRCode") /\ ~full(st2)
        THEN QRSingleFPLoop(opts, allFPs, scene.rmqr, 1, maxSymbols, "RMQRCode", st2)
        ELSE st2

QRReaderDecode(opts, scene, maxSymbols) == QRReaderDecodeLocals(opts, scene, maxSymbols).res

\* Reader::decode(image) on a pure image, lines 50-99.  pure: which of
\* DetectPureQR / DetectPureMQR / DetectPureRMQR would find the symbol
\* ("QR", "MQR", "RMQR" or "none"), and the outcome of Decode.
QRReaderDecodePure(opts, pure) ==
    LET afterQR == IF (HasFormat(opts, "QRCode") \/ HasFormat(opts, "UPNQR"))
                      /\ pure.shape = "QR" THEN "QR" ELSE "none"
        afterMQR == IF HasFormat(opts, "MicroQRCode") /\ afterQR = "none"
                       /\ pure.shape = "MQR" THEN "MQR" ELSE afterQR
        detected == IF HasFormat(opts, "RMQRCode") /\ afterMQR = "none"
                       /\ pure.shape = "RMQR" THEN "RMQR" ELSE afterMQR
        format == IF detected = "RMQR" THEN "RMQRCode"
                  ELSE IF detected = "MQR" THEN "MicroQRCode"
                  ELSE IF HasFormat(opts, "UPNQR") /\ IsUPNQR(pure.dec) THEN "UPNQR"
                  ELSE "QRCode"
    IN  IF detected = "none" THEN <<>>
        ELSE IF ~HasFormat(opts, format) THEN <<>>
        ELSE <<Result(format, <<1>>, DecoderError(pure.dec.outcome))>>

(***************************************************************************)
(* GridMatrix::Reader::decode(image), GMReader.cpp:152-169.                *)
(***************************************************************************)
GMReaderDecode(opts, input) ==
    IF ~input.detValid THEN <<>>
    ELSE IF ~DecoderResultIsValid(input.dec, opts.returnErrors) THEN <<>>
    ELSE <<Result("GridMatrix", <<1>>, DecoderError(input.dec))>>

(***************************************************************************)
(* Row readers with check digits.  txt is the sequence of decoded digits   *)
(* (character codes for Telepen), check digit(s) last.                     *)
(***************************************************************************)
MaxMSILen == 3         \* MSI texts have 1..MaxMSILen digits
MaxDataDigit == 1      \* data digits of Korea Post / Deutsche Post texts: 0..MaxDataDigit

RECURSIVE Mod10Sum(_, _, _)
\* ODMSIReader.cpp:61-73, from the rightmost digit i = Len(data) down to 1
Mod10Sum(data, i, doubleIt) ==
    IF i < 1 THEN 0
    ELSE LET twice == data[i] * 2
             digit == IF doubleIt
                      THEN (IF twice > 9 THEN (twice \div 10) + (twice % 10) ELSE twice)
                      ELSE data[i]
         IN  digit + Mod10Sum(data, i - 1, ~doubleIt)

\* ODMSIReader.cpp:59-76
CalculateMod10CheckDigit(data) == (10 - (Mod10Sum(data, Len(data), TRUE) % 10)) % 10

RECURSIVE Mod11Sum(_, _, _)
\* ODMSIReader.cpp:89-95, weights 2..7 cycling from the right
Mod11Sum(data, i, weight) ==
    IF i < 1 THEN 0
    ELSE data[i] * weight + Mod11Sum(data, i - 1, IF weight + 1 > 7 THEN 2 ELSE weight + 1)

\* ODMSIReader.cpp:84-98
CalculateMod11CheckDigit(data) == (11 - (Mod11Sum(data, Len(data), 2) % 11)) % 11

Prefix(s, n) == SubSeq(s, 1, n)

\* ODMSIReader.cpp:103-111
ValidateMod10(dataWithCheck) ==
    IF Len(dataWithCheck) < 2 THEN FALSE
    ELSE CalculateMod10CheckDigit(Prefix(dataWithCheck, Len(dataWithCheck) - 1))
             = dataWithCheck[Len(dataWithCheck)]

\* ODMSIReader.cpp:118-132
ValidateMod11(dataWithCheck) ==
    IF Len(dataWithCheck) < 2 THEN FALSE
    ELSE LET expected == CalculateMod11CheckDigit(Prefix(dataWithCheck, Len(dataWithCheck) - 1))
         IN  IF expected = 10 THEN FALSE ELSE expected = dataWithCheck[Len(dataWithCheck)]

\* ODMSIReader.cpp:137-156
ValidateMod10Mod10(dataWithChecks) ==
    IF Len(dataWithChecks) < 3 THEN FALSE
    ELSE LET n == Len(dataWithChecks)
             data == Prefix(dataWithChecks, n - 2)
             checkC == dataWithChecks[n - 1]
             checkK == dataWithChecks[n]
         IN  IF CalculateMod10CheckDigit(data) # checkC THEN FALSE
             ELSE CalculateMod10CheckDigit(Append(data, checkC)) = checkK

\* ODMSIReader.cpp:161-179
ValidateMod11Mod10(dataWithChecks) ==
    IF Len(dataWithChecks) < 3 THEN FALSE
    ELSE LET n == Len(dataWithChecks)
             data == Prefix(dataWithChecks, n - 2)
             checkC == dataWithChecks[n - 1]
             checkK == dataWithChecks[n]
             expectedC == CalculateMod11CheckDigit(data)
         IN  IF expectedC = 10 \/ expectedC # checkC THEN FALSE
             ELSE CalculateMod10CheckDigit(Append(data, checkC)) = checkK

\* ODMSIReader.cpp:302-314
MSIChecksumValid(txt) ==
    LET single == IF Len(txt) >= 2 THEN ValidateMod10(txt) \/ ValidateMod11(txt) ELSE FALSE
    IN  IF ~single /\ Len(txt) >= 3
        THEN ValidateMod10Mod10(txt) \/ ValidateMod11Mod10(txt)
        ELSE single

\* MSIReader::decodePattern from the stop pattern on, ODMSIReader.cpp:284-326:
\* the assignment of ChecksumError at line 318 is commented out
MSIDecodePattern(opts, txt) ==
    IF Len(txt) = 0 THEN NoResult
    ELSE Result("MSI", txt, "None")

RECURSIVE SumDigits(_, _)
SumDigits(digits, i) == IF i > Len(digits) THEN 0 ELSE digits[i] + SumDigits(digits, i + 1)

\* a check digit that is the digit sum modulo 10
KoreaPostCheckDigitPlain(digits) ==
    SumDigits(digits, 1) % 10

\* ODKoreaPostReader.cpp:166-174
KoreaPostCheckDigit(digits) ==
    LET check == 10 - (SumDigits(digits, 1) % 10)
    IN  IF check = 10 THEN 0 ELSE check

\* KoreaPostReader::decodePattern for a row holding one candidate of seven
\* digits, ODKoreaPostReader.cpp:244-265: on a mismatch the candidate is
\* skipped and the row yields nothing
KoreaPostDecodePattern(opts, txt) ==
    LET dataDigits == Prefix(txt, 6)
    IN  IF KoreaPostCheckDigit(dataDigits) # txt[7] THEN NoResult
        ELSE Result("KoreaPost", dataDigits, "None")

\* ODTelepenReader.cpp:202-209
TelepenCheckDigit(data) == (127 - (SumDigits(data, 1) % 127)) % 127

\* ODTelepenReader.cpp:215-225
TelepenValidateCheckDigit(dataWithCheck) ==
    IF Len(dataWithCheck) < 2 THEN FALSE
    ELSE TelepenCheckDigit(Prefix(dataWithCheck, Len(dataWithCheck) - 1))
             = dataWithCheck[Len(dataWithCheck)]

\* TelepenReader::decodePattern from the stop pattern on, ODTelepenReader.cpp:270-299
TelepenDecodePattern(opts, txt) ==
    IF Len(txt) < 2 THEN NoResult
    ELSE Result("Telepen", Prefix(txt, Len(txt) - 1),
                IF TelepenValidateCheckDigit(txt) THEN "None" ELSE "Checksum")

RECURSIVE WeightedSum49(_, _)
\* ODDeutschePostReader.cpp:31-36, weights 4, 9, 4, 9, ... without the last digit
WeightedSum49(txt, i) ==
    IF i > Len(txt) - 1 THEN 0
    ELSE txt[i] * (IF (i - 1) % 2 = 0 THEN 4 ELSE 9) + WeightedSum49(txt, i + 1)

\* ODDeutschePostReader.cpp:25-42
IsCheckDigitValid(txt) ==
    IF Len(txt) < 2 THEN FALSE
    ELSE (10 - (WeightedSum49(txt, 1) % 10)) % 10 = txt[Len(txt)]

\* DeutschePostReader::decodePattern from the length test on,
\* ODDeutschePostReader.cpp:108-131
DeutschePostDecodePattern(opts, txt) ==
    LET format == IF Len(txt) = 14
                  THEN (IF TestFlag(opts.formats, "DeutschePostLeitcode")
                        THEN "DeutschePostLeitcode" ELSE "None")
                  ELSE IF Len(txt) = 12
                  THEN (IF TestFlag(opts.formats, "DeutschePostIdentcode")
                        THEN "DeutschePostIdentcode" ELSE "None")
                  ELSE "None"
    IN  IF format = "None" THEN NoResult
        ELSE Result(format, txt, IF IsCheckDigitValid(txt) THEN "None" ELSE "Checksum")

RowReaders == {"MSI", "KoreaPost", "Telepen", "DeutschePost"}

\* OneD::Reader::Reader, ODReader.cpp:106-211: which row readers are built
RowReaderBuilt(opts, reader) ==
    LET formats == EffectiveFormats(opts.formats)
    IN  CASE reader = "MSI" -> TestFlag(formats, "MSI")
          [] reader = "KoreaPost" -> TestFlag(formats, "KoreaPost")
          [] reader = "Telepen" -> TestFlag(formats, "Telepen")
          [] reader = "DeutschePost" ->
                 TestFlags(formats, {"DeutschePostLeitcode", "DeutschePostIdentcode"})

RowDecodePattern(opts, reader, txt) ==
    CASE reader = "MSI" -> MSIDecodePattern(opts, txt)
      [] reader = "KoreaPost" -> KoreaPostDecodePattern(opts, txt)
      [] reader = "Telepen" -> TelepenDecodePattern(opts, txt)
      [] reader = "DeutschePost" -> DeutschePostDecodePattern(opts, txt)

\* the linear dispatch for an image on which one row reader sees one candidate
RowReaderDecode(opts, reader, txt) ==
    IF ~RowReaderBuilt(opts, reader) THEN <<>>
    ELSE LET result == RowDecodePattern(opts, reader, txt)
             \* ODReader.cpp:314
             accepted == ResultIsValid(result)
                             \/ (opts.returnErrors /\ result.error # "None")
         IN  IF accepted THEN <<result>> ELSE <<>>

(***************************************************************************)
(* POSTNETReader, ODPOSTNETReader.cpp:438-583.  A region is described by   *)
(* its bar count and by whether DecodePostnet / DecodePlanet yield a text  *)
(* with a valid check digit, read forward and read reversed.               *)
(***************************************************************************)
\* decodeInternal, lines 438-556
POSTNETDecodeInternal(opts, region) ==
    LET isPostnetLength == region.numBars \in {32, 52, 62}
        isPlanetLength == region.numBars \in {62, 72}
        tryPostnet(ok) == isPostnetLength /\ TestFlag(opts.formats, "POSTNET") /\ ok
        tryPlanet(ok) == isPlanetLength /\ TestFlag(opts.formats, "PLANET") /\ ok
        format == IF tryPostnet(region.postnetFwd) THEN "POSTNET"
                  ELSE IF tryPlanet(region.planetFwd) THEN "PLANET"
                  ELSE IF tryPostnet(region.postnetRev) THEN "POSTNET"
                  ELSE IF tryPlanet(region.planetRev) THEN "PLANET"
                  ELSE "None"
    IN  IF ~region.valid \/ format = "None" THEN NoResult
        ELSE Result(format, <<region.numBars>>, "None")

\* decode(image, maxSymbols) with decode(image), lines 558-583
POSTNETReaderDecode(opts, input) ==
    LET first == POSTNETDecodeInternal(opts, input.normal)
        result == IF ~ResultIsValid(first) /\ opts.tryRotate
                  THEN POSTNETDecodeInternal(opts, input.rotated)
                  ELSE first
    IN  IF ResultIsValid(result) THEN <<result>> ELSE <<>>

(***************************************************************************)
(* SpecReaders: one reader, built with some ReaderOptions, is handed one   *)
(* image and returns.                                                      *)
(***************************************************************************)
MaxRdSymbols == 2      \* maxSymbols of a call: 0 (no limit) .. MaxRdSymbols

\* the formats a reader serves (MatrixCodes and LinearCodes of BarcodeFormat.h)
ReaderFamily(reader) ==
    CASE reader = "Aztec" -> {"Aztec", "AztecRune"}
      [] reader \in {"QRMulti", "QRSingle"} -> {"QRCode", "UPNQR", "MicroQRCode", "RMQRCode"}
      [] reader = "GridMatrix" -> {"GridMatrix"}
      [] reader = "POSTNET" -> {"POSTNET", "PLANET"}
      [] reader \in RowReaders ->
             {"DeutschePostLeitcode", "DeutschePostIdentcode", "POSTNET", "PLANET", "MSI",
              "KoreaPost", "Telepen"}

\* MultiFormatReader builds a reader when one of its formats is asked for
ReaderCreated(opts, reader) ==
    opts.formats = {} \/ TestFlags(opts.formats, ReaderFamily(reader))

\* QRReader.cpp:46-48 and the pure path
QRReaderDecodeSingle(opts, input) ==
    IF ~opts.isPure
    THEN LET res == QRReaderDecode(opts, input.scene, 1)
         IN  IF Len(res) = 0 THEN <<>> ELSE <<res[1]>>
    ELSE QRReaderDecodePure(opts, input.pure)

\* what the call of `reader` on `input` returns
ReaderReturn(reader, opts, input, maxSymbols) ==
    CASE reader = "Aztec" -> AZReaderDecode(opts, input, maxSymbols)
      [] reader = "QRMulti" -> QRReaderDecode(opts, input, maxSymbols)
      [] reader = "QRSingle" -> QRReaderDecodeSingle(opts, input)
      [] reader = "GridMatrix" -> GMReaderDecode(opts, input)
      [] reader = "POSTNET" -> POSTNETReaderDecode(opts, input)
      [] reader \in RowReaders -> RowReaderDecode(opts, reader, input)

RdOptions ==
    [formats : {{}} \cup {{f} : f \in AllFormats} \cup {AllFormats},
     returnErrors : BOOLEAN, isPure : BOOLEAN, tryRotate : BOOLEAN]

\* images, as what detection and decoding make of them
AztecInputs ==
    LET detections == [nbLayers : {0, 2}, dec : {"ok", "Checksum", "empty"}]
    IN  {<<>>} \cup {<<a>> : a \in detections}
            \cup {<<a, b>> : a \in detections, b \in detections}

QRDec(outcome, versionNumber, ecLevel, hasECI, encodings) ==
    [outcome |-> outcome, versionNumber |-> versionNumber, ecLevel |-> ecLevel,
     hasECI |-> hasECI, encodings |-> encodings]

QRDecs ==
    {QRDec("ok", 2, "M", FALSE, <<>>),
     QRDec("Checksum", 2, "M", FALSE, <<>>),
     QRDec("ok", 15, "M", TRUE, <<"ISO8859_2">>),
     QRDec("ok", 14, "M", TRUE, <<"ISO8859_2">>),
     QRDec("ok", 15, "L", TRUE, <<"ISO8859_2">>),
     QRDec("ok", 15, "M", TRUE, <<"UTF8">>),
     QRDec("ok", 15, "M", FALSE, <<>>)}

QRScenes ==
    LET plain == QRDec("ok", 2, "M", FALSE, <<>>)
        bad == QRDec("Checksum", 2, "M", FALSE, <<>>)
        first == {[fps |-> {1, 2, 3}, detValid |-> TRUE, dec |-> d] : d \in QRDecs}
                     \cup {[fps |-> {1, 2, 3}, detValid |-> FALSE, dec |-> plain]}
        second == {[fps |-> f, detValid |-> TRUE, dec |-> d] :
                       f \in {{3, 4, 5}, {4, 5, 6}}, d \in {plain, bad}}
        fpSets == {<<>>} \cup {<<a>> : a \in first}
                      \cup {<<a, b>> : a \in first, b \in second}
        mqr == {<<>>} \cup {<<[fp |-> f, detValid |-> TRUE, dec |-> d]>> :
                                f \in {1, 7}, d \in {plain, bad}}
        rmqr == {<<>>} \cup {<<[fp |-> 8, detValid |-> TRUE, dec |-> d]>> :
                                 d \in {plain, bad}}
    IN  [fpSets : fpSets, mqr : mqr, rmqr : rmqr]

PureImages == [shape : {"QR", "MQR", "RMQR", "none"}, dec : QRDecs]

GMInputs == [detValid : BOOLEAN, dec : {"ok", "Checksum", "Format", "empty"}]

\* the digits (character codes for Telepen) a row reader decodes from a row
RowTexts(reader) ==
    LET digits == 0 .. 9
        telepenChars == {1, 65, 126}
        telepenData == {<<a>> : a \in telepenChars}
                           \cup {<<a, b>> : a \in telepenChars, b \in telepenChars}
    IN  CASE reader = "MSI" -> UNION {[1 .. len -> digits] : len \in 1 .. MaxMSILen}
          [] reader = "KoreaPost" ->
                 {d \o <<e, c>> : d \in [1 .. 5 -> 0 .. MaxDataDigit], e \in {0, 5, 9}, c \in digits}
          [] reader = "Telepen" ->
                 {<<a>> : a \in telepenChars}
                     \cup {d \o <<c>> : d \in telepenData, c \in {0, 1, 126}}
                     \cup {d \o <<TelepenCheckDigit(d)>> : d \in telepenData}
          [] reader = "DeutschePost" ->
                 {[i \in 1 .. len |-> IF i = len THEN c ELSE d] \o <<>> :
                      len \in {12, 13, 14}, d \in 0 .. MaxDataDigit, c \in digits}

POSTNETInputs ==
    LET regions == [valid : {TRUE}, numBars : {32, 52, 62, 72, 40},
                    postnetFwd : BOOLEAN, planetFwd : BOOLEAN,
                    postnetRev : BOOLEAN, planetRev : BOOLEAN]
        noRegion == [valid |-> FALSE, numBars |-> 0,
                     postnetFwd |-> FALSE, planetFwd |-> FALSE,
                     postnetRev |-> FALSE, planetRev |-> FALSE]
        rotatedPlanet == [valid |-> TRUE, numBars |-> 72,
                          postnetFwd |-> FALSE, planetFwd |-> TRUE,
                          postnetRev |-> FALSE, planetRev |-> FALSE]
    IN  [normal : regions \cup {noRegion}, rotated : {noRegion, rotatedPlanet}]

InitReaders ==
    /\ RSUnused
    /\ ODUnused
    /\ CDUnused
    /\ GFUnused
    /\ rdPc = "idle"
    /\ rdOpts \in RdOptions
    /\ rdReader = "none"
    /\ rdInput = <<>>
    /\ rdMaxSymbols = 0
    /\ rdRet = <<>>

ReaderCall(reader, input, maxSymbols) ==
    /\ rdPc = "idle"
    /\ ReaderCreated(rdOpts, reader)
    /\ rdPc' = "done"
    /\ rdReader' = reader
    /\ rdInput' = input
    /\ rdMaxSymbols' = maxSymbols
    /\ rdRet' = ReaderReturn(reader, rdOpts, input, maxSymbols)
    /\ UNCHANGED <<rdOpts, rsVars, odVars, cdVars, gfVars>>

AztecDecode ==
    /\ rdPc = "idle"
    /\ \E input \in AztecInputs, maxSymbols \in 0 .. MaxRdSymbols :
           ReaderCall("Aztec", input, maxSymbols)

QRDecodeMulti ==
    /\ rdPc = "idle"
    /\ \E input \in QRScenes, maxSymbols \in 0 .. MaxRdSymbols :
           ReaderCall("QRMulti", input, maxSymbols)

QRDecodeSingle ==
    /\ rdPc = "idle"
    /\ \/ /\ ~rdOpts.isPure
          /\ \E scene \in QRScenes :
                 ReaderCall("QRSingle", [scene |-> scene, pure |-> <<>>], 1)
       \/ /\ rdOpts.isPure
          /\ \E pure \in PureImages :
                 ReaderCall("QRSingle", [scene |-> <<>>, pure |-> pure], 1)

GMDecode ==
    /\ rdPc = "idle"
    /\ \E input \in GMInputs : ReaderCall("GridMatrix", input, 1)

POSTNETDecode ==
    /\ rdPc = "idle"
    /\ \E input \in POSTNETInputs, maxSymbols \in 0 .. MaxRdSymbols :
           ReaderCall("POSTNET", input, maxSymbols)

RowDecode ==
    /\ rdPc = "idle"
    /\ \E reader \in RowReaders :
           \E txt \in RowTexts(reader) : ReaderCall(reader, txt, 1)

NextReaders ==
    AztecDecode \/ QRDecodeMulti \/ QRDecodeSingle \/ GMDecode \/ POSTNETDecode \/ RowDecode

SpecReaders == InitReaders /\ [][NextReaders]_vars

(***************************************************************************)
(* Properties of the readers.                                              *)
(***************************************************************************)
\* C2: when formats holds exactly one format F, no reader returns a Barcode
\* whose format is different from F.
C2_SingleFormatIsolation ==
    (rdPc = "done" /\ Cardinality(rdOpts.formats) = 1)
        => \A i \in 1 .. Len(rdRet) : rdRet[i].format \in rdOpts.formats

\* C3: with formats = {} every reader returns, for every image, exactly what
\* it returns with formats = Any.
C3_EmptyFormatsIsAny ==
    (rdPc = "done" /\ rdOpts.formats = {})
        => rdRet = ReaderReturn(rdReader, [rdOpts EXCEPT !.formats = AllFormats],
                                rdInput, rdMaxSymbols)

\* C4: when returnErrors is not set, no returned Barcode carries an error.
C4_NoErrorUnlessAsked ==
    (rdPc = "done" /\ ~rdOpts.returnErrors)
        => \A i \in 1 .. Len(rdRet) : rdRet[i].error = "None"

\* C5: a candidate of a row reader whose check digit(s) do not match the
\* computed value yields a result with a Checksum error and the decoded text
\* when returnErrors is set, and nothing otherwise; it is never returned free
\* of error.
C5_MismatchIsChecksumError ==
    LET txt == rdInput
        mismatch ==
            CASE rdReader = "MSI" -> Len(txt) >= 2 /\ ~MSIChecksumValid(txt)
              [] rdReader = "KoreaPost" -> KoreaPostCheckDigit(Prefix(txt, 6)) # txt[7]
              [] rdReader = "Telepen" -> Len(txt) >= 2 /\ ~TelepenValidateCheckDigit(txt)
              [] rdReader = "DeutschePost" ->
                     /\ \/ Len(txt) = 14 /\ HasFormat(rdOpts, "DeutschePostLeitcode")
                        \/ Len(txt) = 12 /\ HasFormat(rdOpts, "DeutschePostIdentcode")
                     /\ ~IsCheckDigitValid(txt)
    IN  (/\ rdPc = "done"
         /\ rdReader \in RowReaders
         /\ RowReaderBuilt(rdOpts, rdReader)
         /\ mismatch)
            => IF rdOpts.returnErrors
               THEN /\ Len(rdRet) = 1
                    /\ rdRet[1].error = "Checksum"
                    /\ Len(rdRet[1].text) > 0
               ELSE rdRet = <<>>

\* C12: the QR reader tags a result UPNQR only if the decoded symbol has
\* version 15, EC level M and a first ECI selecting ISO-8859-2.
C12_UPNQROnlyIfAllThree ==
    LET decOf(b) == IF rdReader = "QRSingle" /\ rdOpts.isPure THEN rdInput.pure.dec
                    ELSE IF rdReader = "QRSingle" THEN rdInput.scene.fpSets[b.text[1]].dec
                    ELSE rdInput.fpSets[b.text[1]].dec
    IN  (rdPc = "done" /\ rdReader \in {"QRMulti", "QRSingle"})
            => \A i \in 1 .. Len(rdRet) :
                   rdRet[i].format = "UPNQR"
                       => /\ decOf(rdRet[i]).versionNumber = 15
                          /\ decOf(rdRet[i]).ecLevel = "M"
                          /\ decOf(rdRet[i]).hasECI
                          /\ Len(decOf(rdRet[i]).encodings) > 0
                          /\ decOf(rdRet[i]).encodings[1] = "ISO8859_2"

\* the list decode returns a result tagged UPNQR and one tagged QRCode
C12_Witness ==
    /\ rdPc = "done"
    /\ rdReader = "QRMulti"
    /\ Len(rdRet) = 2
    /\ rdRet[1].format = "UPNQR"
    /\ rdRet[2].format = "QRCode"

\* C23: within one QR Reader::decode(image, maxSymbols) call no finder
\* pattern of a candidate for which a result was added to the list is part
\* of a candidate sampled later (QR triple, Micro QR or rMQR attempt).
C23_UsedPatternNotOfferedAgain ==
    (rdPc = "done" /\ rdReader = "QRMulti") =>
        LET offered == QRReaderDecodeLocals(rdOpts, rdInput, rdMaxSymbols).offered
        IN  \A i \in 1 .. Len(offered) : \A j \in (i + 1) .. Len(offered) :
                offered[i].added => offered[i].fps \cap offered[j].fps = {}

(***************************************************************************)
(* Symbology decoders as functions of what the bar matching yields         *)
(* (SpecCodecs).  A returned Barcode is [format, text, error] as above.    *)
(***************************************************************************)
RECURSIVE SumWeighted(_, _, _, _)
\* sum over k = i..j of (k + off) * s[k]
SumWeighted(s, i, j, off) ==
    IF i > j THEN 0 ELSE (i + off) * s[i] + SumWeighted(s, i + 1, j, off)

\* DecodeCharacter (ODCode16KReader.cpp:258-311; ODCodablockFReader.cpp:227-268
\* is the same without the shift code, hasShift = FALSE): st holds codeSet
\* (99 C, 100 B, 101 A), the result so far, fnc4Active and shift
DecodeCharacter(code, st, hasShift) ==
    LET wasShift == st.shift
        s0 == [st EXCEPT !.shift = FALSE]
        effectiveCodeSet == IF wasShift THEN (IF st.codeSet = 101 THEN 100 ELSE 101)
                            ELSE st.codeSet
        chr(c) == IF st.fnc4Active THEN (c + 128) % 256 ELSE c
        add(cs) == [s0 EXCEPT !.result = @ \o cs]
    IN  IF effectiveCodeSet = 99
        THEN IF code < 100 THEN add(<<48 + (code \div 10), 48 + (code % 10)>>)
             ELSE IF code = 101 THEN [s0 EXCEPT !.codeSet = 101]
             ELSE IF code = 100 THEN [s0 EXCEPT !.codeSet = 100]
             ELSE s0
        ELSE IF effectiveCodeSet = 101
        THEN IF code < 64 THEN add(<<chr(code + 32)>>)
             ELSE IF code < 96 THEN add(<<chr(code - 64)>>)
             ELSE IF hasShift /\ code = 98 THEN [s0 EXCEPT !.shift = TRUE]
             ELSE IF code = 100 THEN [s0 EXCEPT !.codeSet = 100]
             ELSE IF code = 99 THEN [s0 EXCEPT !.codeSet = 99]
             ELSE IF code = 101 THEN [s0 EXCEPT !.fnc4Active = ~@]
             ELSE s0
        ELSE IF code < 96 THEN add(<<chr(code + 32)>>)
             ELSE IF hasShift /\ code = 98 THEN [s0 EXCEPT !.shift = TRUE]
             ELSE IF code = 101 THEN [s0 EXCEPT !.codeSet = 101]
             ELSE IF code = 99 THEN [s0 EXCEPT !.codeSet = 99]
             ELSE IF code = 100 THEN [s0 EXCEPT !.fnc4Active = ~@]
             ELSE s0

\* DecodeRow of Codablock F on the codes DecodeCode yields for the successive
\* six-element groups of a row (ODCodablockFReader.cpp:95-177)
CodablockFDecodeRow(codes) ==
    LET none == [isValid |-> FALSE, codewords |-> <<>>, rowIndicator |-> -1]
        ends == {n \in 2 .. Len(codes) : codes[n] = 106 \/ codes[n] < 0}
        first == CHOOSE n \in ends : \A m \in ends : n <= m
        isValid == ends # {} /\ codes[first] = 106
        codewords == IF ends = {} THEN codes
                     ELSE IF isValid THEN SubSeq(codes, 1, first)
                     ELSE SubSeq(codes, 1, first - 1)
    IN  IF Len(codes) = 0 \/ codes[1] \notin {103, 104, 105} THEN none
        ELSE IF Len(codewords) < 5 THEN none
        \* lines 166-174: the row's mod-103 checksum is computed and compared,
        \* but a mismatch changes nothing
        ELSE [isValid |-> isValid, codewords |-> codewords, rowIndicator |-> codewords[2]]

RECURSIVE DecodeCodewords(_, _, _, _, _)
\* the decoding state after the codewords cw[i .. j) (0-based, as in the loops
\* of ODCodablockFReader.cpp:367-376 and ODCode16KReader.cpp:444-452, which
\* skips the pad codeword 106: code16K = TRUE)
DecodeCodewords(cw, i, j, st, code16K) ==
    IF i >= j THEN st
    ELSE IF code16K /\ cw[i + 1] = 106 THEN DecodeCodewords(cw, i + 1, j, st, code16K)
    ELSE DecodeCodewords(cw, i + 1, j, DecodeCharacter(cw[i + 1], st, code16K), code16K)

RECURSIVE CodablockFText(_, _, _)
\* the decoding state after the data codewords of the sorted rows from rowIdx
\* on, lines 355-377
CodablockFText(rows, rowIdx, st) ==
    IF rowIdx > Len(rows) THEN st
    ELSE LET cw == rows[rowIdx].codewords
             dataEnd0 == Len(cw) - 2
             dataEnd == IF rowIdx = Len(rows) /\ dataEnd0 >= 2 + 2 THEN dataEnd0 - 2
                        ELSE dataEnd0
         IN  CodablockFText(rows, rowIdx + 1, DecodeCodewords(cw, 2, dataEnd, st, FALSE))

\* CodablockFReader::decodeInternal on the rows found from top to bottom
\* (ODCodablockFReader.cpp:270-393); k1Sum and k2Sum (lines 340-369) are
\* computed there and never compared with the symbol's K1 and K2
CodablockFDecodeInternal(rowCodes) ==
    LET decoded == [n \in 1 .. Len(rowCodes) |-> CodablockFDecodeRow(rowCodes[n])]
        valid == SelectSeq(decoded, LAMBDA r : r.isValid)
        rowNumber(r) == IF r.rowIndicator < 42 THEN 0 ELSE r.rowIndicator - 42
        rank(n) == Cardinality({m \in 1 .. Len(valid) :
                                    rowNumber(valid[m]) < rowNumber(valid[n])})
        rows == [k \in 1 .. Len(valid) |->
                     valid[CHOOSE n \in 1 .. Len(valid) : rank(n) = k - 1]]
        result == CodablockFText(rows, 1, [codeSet |-> 101, result |-> <<>>,
                                           fnc4Active |-> FALSE, shift |-> FALSE]).result
    IN  IF Len(valid) < 2 THEN NoResult
        ELSE IF Len(result) = 0 THEN NoResult
        ELSE Result("CodablockF", result, "None")

\* ValidateCheckDigits of Code 16K (ODCode16KReader.cpp:314-337)
Code16KValidateCheckDigits(allCodewords) ==
    LET n == Len(allCodewords)
        firstCheck == SumWeighted(allCodewords, 1, n - 2, 1) % 107
        secondCheck == (SumWeighted(allCodewords, 1, n - 2, 0) + firstCheck * (n - 1)) % 107
    IN  /\ n >= 3
        /\ allCodewords[n - 1] = firstCheck
        /\ allCodewords[n] = secondCheck

RECURSIVE Code16KDistinctRows(_, _)
\* the row scan of lines 376-393: a valid row whose index was seen is dropped
Code16KDistinctRows(found, rows) ==
    IF Len(found) = 0 THEN rows
    ELSE LET row == Head(found)
             duplicate == \E n \in 1 .. Len(rows) : rows[n].rowIndex = row.rowIndex
         IN  Code16KDistinctRows(Tail(found),
                 IF row.rowIndex >= 0 /\ ~duplicate THEN Append(rows, row) ELSE rows)

\* Code16KReader::decodeInternal on the rows found from top to bottom, each
\* [rowIndex, codewords] as DecodeRow yields them, rowIndex -1 for a row whose
\* start and stop patterns match no row (ODCode16KReader.cpp:339-465)
Code16KDecodeInternal(found) ==
    LET distinct == Code16KDistinctRows(found, <<>>)
        rank(n) == Cardinality({m \in 1 .. Len(distinct) :
                                    distinct[m].rowIndex < distinct[n].rowIndex})
        rows == [k \in 1 .. Len(distinct) |->
                     distinct[CHOOSE n \in 1 .. Len(distinct) : rank(n) = k - 1]]
        firstCodeword == rows[1].codewords[1]
        expectedRows == (firstCodeword \div 7) + 2
        mode == firstCodeword % 7
        allCodewords == IF Len(rows) = 2 THEN rows[1].codewords \o rows[2].codewords
                        ELSE rows[1].codewords \o rows[2].codewords \o rows[3].codewords
        \* lines 428-430: the outcome of the check is not used
        checked == Code16KValidateCheckDigits(allCodewords)
        codeSet == IF mode \in {1, 5} THEN 100 ELSE IF mode \in {2, 4, 6} THEN 99 ELSE 101
        result == DecodeCodewords(allCodewords, 1, Len(allCodewords) - 2,
                                  [codeSet |-> codeSet, result |-> <<>>,
                                   fnc4Active |-> FALSE, shift |-> FALSE], TRUE).result
    IN  IF Len(distinct) < 2 THEN NoResult
        ELSE IF \E i \in 1 .. Len(rows) : rows[i].rowIndex # i - 1 THEN NoResult
        ELSE IF expectedRows # Len(rows) THEN NoResult
        ELSE IF Len(result) = 0 THEN NoResult
        ELSE Result("Code16K", result, "None")

\* ROYAL_TABLE: the four bar states (0 full, 1 ascender, 2 descender,
\* 3 tracker) of the characters 0-9 A-Z (ODRM4SCCReader.cpp:42-79)
ROYAL_TABLE ==
    << <<3, 3, 0, 0>>, <<3, 2, 1, 0>>, <<3, 2, 0, 1>>, <<2, 3, 1, 0>>, <<2, 3, 0, 1>>,
       <<2, 2, 1, 1>>, <<3, 1, 2, 0>>, <<3, 0, 3, 0>>, <<3, 0, 2, 1>>, <<2, 1, 3, 0>>,
       <<2, 1, 2, 1>>, <<2, 0, 3, 1>>, <<3, 1, 0, 2>>, <<3, 0, 1, 2>>, <<3, 0, 0, 3>>,
       <<2, 1, 1, 2>>, <<2, 1, 0, 3>>, <<2, 0, 1, 3>>, <<1, 3, 2, 0>>, <<1, 2, 3, 0>>,
       <<1, 2, 2, 1>>, <<0, 3, 3, 0>>, <<0, 3, 2, 1>>, <<0, 2, 3, 1>>, <<1, 3, 0, 2>>,
       <<1, 2, 1, 2>>, <<1, 2, 0, 3>>, <<0, 3, 1, 2>>, <<0, 3, 0, 3>>, <<0, 2, 1, 3>>,
       <<1, 1, 2, 2>>, <<1, 0, 3, 2>>, <<1, 0, 2, 3>>, <<0, 1, 3, 2>>, <<0, 1, 2, 3>>,
       <<0, 0, 3, 3>> >>

\* RM4SCC_CHARSET[idx] as a character code: '0' is 48, 'A' is 65
RM4SCC_CHARSET(idx) == IF idx < 10 THEN 48 + idx ELSE 65 + (idx - 10)

\* a checksum with row and column exchanged
RM4SCCCalculateChecksumSwapped(data) ==
    LET pos(c) == IF c >= 48 /\ c <= 57 THEN c - 48 ELSE c - 65 + 10
        rowSum[n \in 0 .. Len(data)] ==
            IF n = 0 THEN 0 ELSE rowSum[n - 1] + (pos(data[n]) \div 6)
        colSum[n \in 0 .. Len(data)] ==
            IF n = 0 THEN 0 ELSE colSum[n - 1] + (pos(data[n]) % 6)
    IN  (colSum[Len(data)] % 6) * 6 + (rowSum[Len(data)] % 6)

\* CalculateChecksum (ODRM4SCCReader.cpp:95-116) on a string of character codes
RM4SCCCalculateChecksum(data) ==
    LET pos(c) == IF c >= 48 /\ c <= 57 THEN c - 48
                  ELSE IF c >= 65 /\ c <= 90 THEN c - 65 + 10
                  ELSE -1
        counted(c) == pos(c) >= 0 /\ pos(c) < 36
        rowSum[n \in 0 .. Len(data)] ==
            IF n = 0 THEN 0
            ELSE rowSum[n - 1] + (IF counted(data[n]) THEN pos(data[n]) \div 6 ELSE 0)
        colSum[n \in 0 .. Len(data)] ==
            IF n = 0 THEN 0
            ELSE colSum[n - 1] + (IF counted(data[n]) THEN pos(data[n]) % 6 ELSE 0)
        checksumRow == rowSum[Len(data)] % 6
        checksumCol == colSum[Len(data)] % 6
    IN  checksumRow * 6 + checksumCol

\* DecodeBarStates with DecodeQuad and ValidateChecksum (ODRM4SCCReader.cpp:82-90,
\* 119-130, 344-386): the content, empty when the bars do not decode
RM4SCCDecodeBarStates(states) ==
    LET barCount == Len(states)
        numChars == (barCount - 2) \div 4
        matches(i) == {idx \in 0 .. 35 :
                          ROYAL_TABLE[idx + 1] = SubSeq(states, 2 + i * 4, 5 + i * 4)}
        DecodeQuad(i) == IF matches(i) = {} THEN -1
                         ELSE CHOOSE idx \in matches(i) : \A o \in matches(i) : idx <= o
        result == [i \in 1 .. numChars |-> RM4SCC_CHARSET(DecodeQuad(i - 1))]
        data == SubSeq(result, 1, Len(result) - 1)
        expectedIdx == RM4SCCCalculateChecksum(data)
        ValidateChecksum ==
            /\ Len(result) >= 2
            /\ expectedIdx >= 0 /\ expectedIdx < 36
            /\ RM4SCC_CHARSET(expectedIdx) = result[Len(result)]
    IN  IF barCount < 10 \/ (barCount - 6) % 4 # 0 THEN <<>>
        ELSE IF states[1] # 1 THEN <<>>
        ELSE IF states[barCount] # 0 THEN <<>>
        ELSE IF numChars < 2 THEN <<>>
        ELSE IF \E i \in 0 .. numChars - 1 : DecodeQuad(i) < 0 THEN <<>>
        ELSE IF ~ValidateChecksum THEN <<>>
        ELSE data

\* RM4SCCReader::decodeInternal on the bar states ReadBarStates yields for the
\* first scan line with a valid region (ODRM4SCCReader.cpp:388-449); the
\* reverse attempt is DecodeBarStatesReverse (lines 380-386)
RM4SCCDecodeInternal(states) ==
    LET forward == RM4SCCDecodeBarStates(states)
        reversed == [i \in 1 .. Len(states) |-> states[Len(states) + 1 - i]]
        content == IF Len(forward) = 0 THEN RM4SCCDecodeBarStates(reversed) ELSE forward
    IN  IF Len(content) = 0 THEN NoResult ELSE Result("RM4SCC", content, "None")

RECURSIVE to_string(_)
\* std::to_string of a non-negative int: its decimal digits
to_string(n) == IF n < 10 THEN <<n>> ELSE Append(to_string(n \div 10), n % 10)

\* ClassifyBars (ODPharmacodeReader.cpp:36-80) on a view bar, space, bar, ...:
\* for each bar whether it is wide; empty when the number of bars is not 2..16
PharmacodeClassifyBars(view) ==
    LET barCount == (Len(view) + 1) \div 2
        barWidths == [i \in 1 .. barCount |-> view[2 * i - 1]]
        minWidth == CHOOSE w \in {barWidths[i] : i \in 1 .. barCount} :
                        \A i \in 1 .. barCount : w <= barWidths[i]
        maxWidth == CHOOSE w \in {barWidths[i] : i \in 1 .. barCount} :
                        \A i \in 1 .. barCount : w >= barWidths[i]
        threshold == minWidth * 2
    IN  IF barCount < 2 \/ barCount > 16 THEN <<>>
        ELSE IF maxWidth < minWidth * 2 THEN [i \in 1 .. barCount |-> FALSE]
        ELSE [i \in 1 .. barCount |-> barWidths[i] > threshold]

RECURSIVE PharmacodeDecodeValue(_)
\* DecodeValue (ODPharmacodeReader.cpp:90-108): the first bar of isWide is at
\* position barCount - 1, and 2 << position is 2 * 2^position
PharmacodeDecodeValue(isWide) ==
    IF Len(isWide) = 0 THEN 0
    ELSE (IF Head(isWide) THEN 2 * 2 ^ (Len(isWide) - 1) ELSE 2 ^ (Len(isWide) - 1))
         + PharmacodeDecodeValue(Tail(isWide))

\* PharmacodeReader::decodePattern for a candidate codeView whose quiet zones
\* pass (ODPharmacodeReader.cpp:191-238), DecodeValueAllWide at 113-120
PharmacodeDecodePattern(codeView) ==
    LET isWide == PharmacodeClassifyBars(codeView)
        barCount == (Len(codeView) + 1) \div 2
        value1 == PharmacodeDecodeValue(isWide)
        inRange(v) == ~(v < 3 \/ v > 131070)
        DecodeValueAllWide == 2 * (2 ^ barCount - 1)
        value == IF ~inRange(value1) /\ \A i \in 1 .. Len(isWide) : ~isWide[i]
                 THEN DecodeValueAllWide ELSE value1
    IN  IF Len(isWide) = 0 THEN NoResult
        ELSE IF ~inRange(value) THEN NoResult
        ELSE Result("Pharmacode", to_string(value), "None")

\* BASE32_ALPHABET "0123456789BCDFGHJKLMNPQRSTUVWXYZ" as character codes
\* (ODCode32Reader.cpp:32)
BASE32_ALPHABET ==
    <<48, 49, 50, 51, 52, 53, 54, 55, 56, 57, 66, 67, 68, 70, 71, 72,
      74, 75, 76, 77, 78, 80, 81, 82, 83, 84, 85, 86, 87, 88, 89, 90>>

\* Base32ToNumber with Base32Value (ODCode32Reader.cpp:41-65)
Base32ToNumber(base32) ==
    LET Base32Value(c) ==
            IF \E i \in 0 .. 31 : BASE32_ALPHABET[i + 1] = c
            THEN CHOOSE i \in 0 .. 31 : BASE32_ALPHABET[i + 1] = c
            ELSE -1
        result[n \in 0 .. Len(base32)] ==
            IF n = 0 THEN 0 ELSE result[n - 1] * 32 + Base32Value(base32[n])
    IN  IF Len(base32) # 6 THEN -1
        ELSE IF \E n \in 1 .. 6 : Base32Value(base32[n]) < 0 THEN -1
        ELSE result[6]

\* NumberToDigits (ODCode32Reader.cpp:70-82): nine character codes
NumberToDigits(num) ==
    IF num < 0 \/ num > 999999999 THEN <<>>
    ELSE [i \in 1 .. 9 |-> 48 + ((num \div (10 ^ (9 - i))) % 10)]

\* a check digit that doubles the digits at the even positions 0, 2, 4, 6
Code32CalculateCheckDigitShifted(digits) ==
    LET value(i) == IF i % 2 = 0
                    THEN (IF (digits[i + 1] - 48) * 2 > 9 THEN (digits[i + 1] - 48) * 2 - 9
                          ELSE (digits[i + 1] - 48) * 2)
                    ELSE digits[i + 1] - 48
        sum[n \in 0 .. 8] == IF n = 0 THEN 0 ELSE sum[n - 1] + value(n - 1)
    IN  IF Len(digits) < 8 THEN -1 ELSE sum[8] % 10

\* CalculateCheckDigit (ODCode32Reader.cpp:94-110)
Code32CalculateCheckDigit(digits) ==
    LET value(i) == IF i % 2 = 1
                    THEN (IF (digits[i + 1] - 48) * 2 > 9 THEN (digits[i + 1] - 48) * 2 - 9
                          ELSE (digits[i + 1] - 48) * 2)
                    ELSE digits[i + 1] - 48
        sum[n \in 0 .. 8] == IF n = 0 THEN 0 ELSE sum[n - 1] + value(n - 1)
    IN  IF Len(digits) < 8 THEN -1 ELSE sum[8] % 10

\* Code32Reader::decodePattern from the Code 39 characters read between the
\* start and stop asterisks (ODCode32Reader.cpp:169-198), ValidateCheckDigit
\* at 115-123
Code32DecodePattern(code39Text) ==
    LET numericValue == Base32ToNumber(code39Text)
        digits == NumberToDigits(numericValue)
        hasValidCheckSum == Len(digits) = 9 /\ Code32CalculateCheckDigit(digits) = digits[9] - 48
    IN  IF Len(code39Text) # 6 THEN NoResult
        ELSE IF numericValue < 0 \/ numericValue > 999999999 THEN NoResult
        ELSE IF Len(digits) = 0 THEN NoResult
        ELSE Result("Code32", <<65>> \o digits, IF ~hasValidCheckSum THEN "Checksum" ELSE "None")

\* MAX_VALUES and CHANNEL_WIDTH for the channels 3 .. 8
\* (ODChannelCodeReader.cpp:20-27, 37-44)
MAX_VALUES == <<26, 292, 3493, 44072, 576688, 7742862>>

CHANNEL_WIDTH == <<11, 13, 15, 17, 19, 21>>

RECURSIVE SumSeq(_)
SumSeq(s) == IF Len(s) = 0 THEN 0 ELSE Head(s) + SumSeq(Tail(s))

RECURSIVE ChannelIncrement(_, _, _, _, _)
\* the loop over pos of DecodeChannelValue (ODChannelCodeReader.cpp:132-178)
\* from pos down to 1 on the bar widths B[1..n] and space widths S[1..n-1]:
\* whether an element was incremented, and B and S as the loop leaves them
ChannelIncrement(B, S, pos, n, targetWidth) ==
    IF pos < 1 THEN [incremented |-> FALSE, B |-> B, S |-> S]
    ELSE LET \* lines 134-151: the space at pos
             trySpace == S[pos] < 8
             S1 == [j \in 1 .. n - 1 |-> IF j = pos THEN S[j] + 1 ELSE IF j > pos THEN 1 ELSE S[j]]
             B1 == [j \in 1 .. n |-> IF j > pos THEN 1 ELSE B[j]]
             last1 == targetWidth - (SumSeq(B1) + SumSeq(S1)) + B1[n]
             B1f == [B1 EXCEPT ![n] = last1]
             spaceOK == trySpace /\ last1 >= 1 /\ last1 <= 8
             \* the state after a space attempt that failed
             Sc == IF trySpace THEN [S1 EXCEPT ![pos] = S1[pos] - 1] ELSE S
             Bc == IF trySpace THEN B1f ELSE B
             \* lines 153-176: the bar at pos
             tryBar == Bc[pos] < 8
             S2 == [j \in 1 .. n - 1 |-> IF j >= pos THEN 1 ELSE Sc[j]]
             B2 == [j \in 1 .. n |-> IF j = pos THEN Bc[j] + 1 ELSE IF j > pos THEN 1 ELSE Bc[j]]
             last2 == targetWidth - (SumSeq(B2) + SumSeq(S2)) + B2[n]
             B2f == [B2 EXCEPT ![n] = last2]
             barOK == tryBar /\ last2 >= 1 /\ last2 <= 8
         IN  IF spaceOK THEN [incremented |-> TRUE, B |-> B1f, S |-> S1]
             ELSE IF barOK THEN [incremented |-> TRUE, B |-> B2f, S |-> S2]
             ELSE IF tryBar
                  THEN ChannelIncrement([B2f EXCEPT ![pos] = B2f[pos] - 1], S2, pos - 1, n, targetWidth)
             ELSE ChannelIncrement(Bc, Sc, pos - 1, n, targetWidth)

RECURSIVE ChannelEnumerate(_, _, _, _, _, _)
\* the main enumeration loop (ODChannelCodeReader.cpp:103-185) from iteration
\* iter with the current widths B and S: the iteration that matches, or -1
ChannelEnumerate(B, S, iter, bars, spaces, channel) ==
    LET n == channel
        targetWidth == CHANNEL_WIDTH[channel - 2]
        maxIterations == MAX_VALUES[channel - 2] + 1
        currentWidth == SumSeq(B) + SumSeq(S)
        next == ChannelIncrement(B, S, n - 1, n, targetWidth)
    IN  IF iter > maxIterations THEN -1
        ELSE IF B = bars /\ S = spaces THEN iter
        ELSE IF B[n] < 8 /\ currentWidth < targetWidth
             THEN ChannelEnumerate([B EXCEPT ![n] = B[n] + 1], S, iter + 1, bars, spaces, channel)
        ELSE IF ~next.incremented THEN -1
        ELSE ChannelEnumerate(next.B, next.S, iter + 1, bars, spaces, channel)

\* DecodeChannelValue (ODChannelCodeReader.cpp:59-201) on bars[1..n] and
\* spaces[1..n-1] (the unused elements 0 of the vectors are left out)
DecodeChannelValue(bars, spaces, channel) ==
    IF Len(bars) # channel \/ Len(spaces) # channel - 1 THEN -1
    ELSE IF SumSeq(bars) + SumSeq(spaces) # CHANNEL_WIDTH[channel - 2] THEN -1
    ELSE ChannelEnumerate([i \in 1 .. channel |-> 1], [i \in 1 .. channel - 1 |-> 1], 0,
                          bars, spaces, channel)

\* CorrectErrors of the Grid Matrix decoder (GMDecoder.cpp:178-194): the
\* decoder and field it hands the codewords to, and what it returns; decoded
\* is the outcome of that decoder
GMCorrectErrors(codewords, ecCodewords, decoded) ==
    IF ecCodewords = 0
    THEN [ok |-> TRUE, decoder |-> "none", fieldSize |-> 0, codewords |-> codewords]
    ELSE IF ~decoded.ok
    THEN [ok |-> FALSE, decoder |-> "ReedSolomonDecode", fieldSize |-> 256, codewords |-> codewords]
    ELSE [ok |-> TRUE, decoder |-> "ReedSolomonDecode", fieldSize |-> 256,
          codewords |-> [i \in 1 .. Len(codewords) |-> decoded.codewords[i] % 256]]

\* std::vector<int> codewordsInt(codewords.begin(), codewords.end()): every
\* uint8_t of the ByteArray becomes the int 0..255 it holds
CodewordsInt(codewords) == [i \in 1 .. Len(codewords) |-> codewords[i] % 256]

\* CorrectErrors of the DotCode decoder (DCDecoder.cpp:122-139); handed is
\* the vector passed to the decoder
DCCorrectErrors(codewords, ecCodewords, decoded) ==
    IF ecCodewords = 0
    THEN [ok |-> TRUE, decoder |-> "none", fieldSize |-> 0, handed |-> <<>>,
          codewords |-> codewords]
    ELSE IF ~decoded.ok
    THEN [ok |-> FALSE, decoder |-> "ReedSolomonDecode", fieldSize |-> 256,
          handed |-> CodewordsInt(codewords), codewords |-> codewords]
    ELSE [ok |-> TRUE, decoder |-> "ReedSolomonDecode", fieldSize |-> 256,
          handed |-> CodewordsInt(codewords),
          codewords |-> [i \in 1 .. Len(codewords) |-> decoded.codewords[i] % 256]]

\* CorrectErrors of the Code One decoder (C1Decoder.cpp:97-113):
\* ReedSolomonDecode over GenericGF::MaxiCodeField64()
C1CorrectErrors(codewords, ecCodewords, decoded) ==
    IF ecCodewords = 0
    THEN [ok |-> TRUE, decoder |-> "none", fieldSize |-> 0, handed |-> <<>>,
          codewords |-> codewords]
    ELSE IF ~decoded.ok
    THEN [ok |-> FALSE, decoder |-> "ReedSolomonDecode", fieldSize |-> 64,
          handed |-> CodewordsInt(codewords), codewords |-> codewords]
    ELSE [ok |-> TRUE, decoder |-> "ReedSolomonDecode", fieldSize |-> 64,
          handed |-> CodewordsInt(codewords),
          codewords |-> [i \in 1 .. Len(codewords) |-> decoded.codewords[i] % 256]]

\* CorrectErrors of the Han Xin decoder (HXDecoder.cpp:147-163):
\* ReedSolomonDecode over GenericGF::DataMatrixField256()
HXCorrectErrors(codewords, eccCodewords, decoded) ==
    IF eccCodewords = 0
    THEN [ok |-> TRUE, decoder |-> "none", fieldSize |-> 0, handed |-> <<>>,
          codewords |-> codewords]
    ELSE IF ~decoded.ok
    THEN [ok |-> FALSE, decoder |-> "ReedSolomonDecode", fieldSize |-> 256,
          handed |-> CodewordsInt(codewords), codewords |-> codewords]
    ELSE [ok |-> TRUE, decoder |-> "ReedSolomonDecode", fieldSize |-> 256,
          handed |-> CodewordsInt(codewords),
          codewords |-> [i \in 1 .. Len(codewords) |-> decoded.codewords[i] % 256]]

(***************************************************************************)
(* Content decoders of Code One, DotCode and Han Xin.  A decoder state is  *)
(* [pos, result, read]: the 0-based index of the next codeword, the bytes  *)
(* pushed to the Content, and the indexes of the codewords read so far.    *)
(***************************************************************************)
\* int division and remainder of the language: truncation toward zero
Quot(a, b) == IF a >= 0 THEN a \div b ELSE -((-a) \div b)
Rem(a, b) == a - b * Quot(a, b)

\* Content::push_back of an int: the byte it converts to
PushBack(result, v) == Append(result, v % 256)

\* C40_BASIC, TEXT_BASIC, X12_BASIC / X12_SET (C1Decoder.cpp:35-51,
\* DCDecoder.cpp:35-51) as character codes
C40_BASIC == <<32>> \o [i \in 1 .. 10 |-> 47 + i] \o [i \in 1 .. 26 |-> 64 + i]
TEXT_BASIC == <<32>> \o [i \in 1 .. 10 |-> 47 + i] \o [i \in 1 .. 26 |-> 96 + i]
X12_BASIC == <<13, 42, 62, 32>> \o [i \in 1 .. 10 |-> 47 + i] \o [i \in 1 .. 26 |-> 64 + i]

\* the codewords c1, c2 at pos, pos + 1 are read and pos moves past them
ReadPair(st) == [st EXCEPT !.pos = @ + 2, !.read = @ \cup {st.pos, st.pos + 1}]

\* u1, u2, u3 of the 16-bit value (c1 << 8) | c2
Unpack(c1, c2) ==
    LET value == c1 * 256 + c2
    IN  <<Quot(value - 1, 1600), Rem(Quot(value - 1, 40), 40), Rem(value - 1, 40)>>

RECURSIVE C40Values(_, _, _, _, _)
\* for (int u : {u1, u2, u3}) of DecodeC40Text
C40Values(us, k, shift, result, isText) ==
    IF k > Len(us) THEN [shift |-> shift, result |-> result]
    ELSE LET u == us[k]
         IN  IF shift = 0
             THEN IF u < 3 THEN C40Values(us, k + 1, u + 1, result, isText)
                  ELSE IF u < 40
                  THEN C40Values(us, k + 1, shift,
                           PushBack(result, (IF isText THEN TEXT_BASIC ELSE C40_BASIC)[u - 3 + 1]),
                           isText)
                  ELSE C40Values(us, k + 1, shift, result, isText)
             ELSE C40Values(us, k + 1, 0,
                      PushBack(result, IF shift = 1 THEN u + 32
                                       ELSE IF shift = 2 THEN u + 96
                                       ELSE IF isText THEN u + 64 ELSE u + 96),
                      isText)

RECURSIVE DecodeC40Text(_, _, _, _, _)
\* DecodeC40Text (C1Decoder.cpp:118-156 with limit = Size(codewords),
\* DCDecoder.cpp:144-180 with limit = dataCodewords)
DecodeC40Text(codewords, st, shift, limit, isText) ==
    IF ~(st.pos + 1 < limit) THEN st
    ELSE LET c1 == codewords[st.pos + 1]
             c2 == codewords[st.pos + 2]
             st1 == ReadPair(st)
             v == C40Values(Unpack(c1, c2), 1, shift, st.result, isText)
         IN  IF c1 = 254 THEN st1
             ELSE DecodeC40Text(codewords, [st1 EXCEPT !.result = v.result], v.shift, limit,
                                isText)

RECURSIVE X12Values(_, _, _)
\* for (int u : {u1, u2, u3}) of DecodeX12; X12_BASIC[u] with u = -1 reads
\* the byte in front of the table: an indeterminate value, written -1
X12Values(us, k, result) ==
    IF k > Len(us) THEN result
    ELSE IF us[k] < 0 THEN X12Values(us, k + 1, Append(result, -1))
    ELSE IF us[k] < Len(X12_BASIC)
    THEN X12Values(us, k + 1, PushBack(result, X12_BASIC[us[k] + 1]))
    ELSE X12Values(us, k + 1, result)

RECURSIVE DecodeX12(_, _, _)
\* DecodeX12 (C1Decoder.cpp:160-180, DCDecoder.cpp:185-205)
DecodeX12(codewords, st, limit) ==
    IF ~(st.pos + 1 < limit) THEN st
    ELSE LET c1 == codewords[st.pos + 1]
             c2 == codewords[st.pos + 2]
             st1 == ReadPair(st)
         IN  IF c1 = 254 THEN st1
             ELSE DecodeX12(codewords,
                      [st1 EXCEPT !.result = X12Values(Unpack(c1, c2), 1, st.result)], limit)

RECURSIVE EDIFACTValues(_, _, _)
\* for (int v : {v1, v2, v3, v4}) of DecodeEDIFACT; 31 unlatches
EDIFACTValues(vs, k, result) ==
    IF k > Len(vs) THEN [unlatch |-> FALSE, result |-> result]
    ELSE IF vs[k] = 31 THEN [unlatch |-> TRUE, result |-> result]
    ELSE EDIFACTValues(vs, k + 1, PushBack(result, vs[k] + 32))

RECURSIVE DecodeEDIFACT(_, _, _)
\* DecodeEDIFACT (C1Decoder.cpp:185-204, DCDecoder.cpp:210-228)
DecodeEDIFACT(codewords, st, limit) ==
    IF ~(st.pos + 2 < limit) THEN st
    ELSE LET c1 == codewords[st.pos + 1]
             c2 == codewords[st.pos + 2]
             c3 == codewords[st.pos + 3]
             vs == <<(c1 \div 4) % 64, (c1 % 4) * 16 + ((c2 \div 16) % 16),
                     (c2 % 16) * 4 + ((c3 \div 64) % 4), c3 % 64>>
             v == EDIFACTValues(vs, 1, st.result)
             st1 == [pos |-> st.pos + 3, result |-> v.result,
                     read |-> st.read \cup {st.pos, st.pos + 1, st.pos + 2}]
         IN  IF v.unlatch THEN st1 ELSE DecodeEDIFACT(codewords, st1, limit)

RECURSIVE Base256Bytes(_, _, _, _, _)
\* the copy loop of DecodeBase256
Base256Bytes(codewords, st, i, length, limit) ==
    IF i < length /\ st.pos < limit
    THEN Base256Bytes(codewords,
             [pos |-> st.pos + 1, result |-> PushBack(st.result, codewords[st.pos + 1]),
              read |-> st.read \cup {st.pos}],
             i + 1, length, limit)
    ELSE st

\* DecodeBase256 (C1Decoder.cpp:209-227, DCDecoder.cpp:233-250)
DecodeBase256(codewords, st, limit) ==
    IF st.pos >= limit THEN st
    ELSE LET length == codewords[st.pos + 1]
             st1 == [st EXCEPT !.pos = @ + 1, !.read = @ \cup {st.pos}]
         IN  IF length # 0 THEN Base256Bytes(codewords, st1, 0, length, limit)
             ELSE IF st1.pos >= limit THEN st1
             ELSE LET length2 == codewords[st1.pos + 1]
                      st2 == [st1 EXCEPT !.pos = @ + 1, !.read = @ \cup {st1.pos}]
                  IN  Base256Bytes(codewords, st2, 0, IF length2 = 0 THEN 256 ELSE length2,
                                   limit)

RECURSIVE DecodeDataLoop(_, _, _, _, _)
\* the loop of DecodeData (C1Decoder.cpp:240-303, DCDecoder.cpp:263-326);
\* limit is the bound its mode decoders test pos against
DecodeDataLoop(codewords, st, mode, dataCodewords, limit) ==
    IF ~(st.pos < dataCodewords) THEN st
    ELSE LET c == codewords[st.pos + 1]
             seen == [st EXCEPT !.read = @ \cup {st.pos}]
             next == [seen EXCEPT !.pos = @ + 1]
             again(s, m) == DecodeDataLoop(codewords, s, m, dataCodewords, limit)
         IN  IF mode = "C40" THEN again(DecodeC40Text(codewords, seen, 0, limit, FALSE), "ASCII")
             ELSE IF mode = "TEXT"
             THEN again(DecodeC40Text(codewords, seen, 0, limit, TRUE), "ASCII")
             ELSE IF mode = "X12" THEN again(DecodeX12(codewords, seen, limit), "ASCII")
             ELSE IF mode = "EDIFACT" THEN again(DecodeEDIFACT(codewords, seen, limit), "ASCII")
             ELSE IF c <= 128 THEN again([next EXCEPT !.result = PushBack(@, c - 1)], "ASCII")
             ELSE IF c = 129 THEN again(next, "ASCII")
             ELSE IF c >= 130 /\ c <= 229
             THEN again([next EXCEPT !.result =
                            PushBack(PushBack(@, 48 + ((c - 130) \div 10)), 48 + ((c - 130) % 10))],
                        "ASCII")
             ELSE IF c = 230 THEN again(next, "C40")
             ELSE IF c = 231 THEN again(DecodeBase256(codewords, next, limit), "ASCII")
             ELSE IF c = 235
             THEN IF next.pos < dataCodewords
                  THEN again([pos |-> next.pos + 1,
                              result |-> PushBack(next.result, codewords[next.pos + 1] + 127),
                              read |-> next.read \cup {next.pos}], "ASCII")
                  ELSE again(next, "ASCII")
             ELSE IF c = 238 THEN again(next, "EDIFACT")
             ELSE IF c = 239 THEN again(next, "TEXT")
             ELSE IF c = 240 THEN again(next, "X12")
             ELSE again(next, "ASCII")

DecodeStart == [pos |-> 0, result |-> <<>>, read |-> {}]

\* DecodeData of the Code One decoder (C1Decoder.cpp:232-306): its mode
\* decoders run to Size(codewords)
C1DecodeData(codewords, dataCodewords) ==
    DecodeDataLoop(codewords, DecodeStart, "ASCII", dataCodewords, Len(codewords))

\* DecodeData of the DotCode decoder (DCDecoder.cpp:255-329): its mode
\* decoders run to dataCodewords
DCDecodeData(codewords, dataCodewords) ==
    DecodeDataLoop(codewords, DecodeStart, "ASCII", dataCodewords, dataCodewords)

\* Han Xin: TEXT_SET1 and the mode indicators (HXDecoder.cpp:45-58)
TEXT_SET1 == [i \in 1 .. 10 |-> 47 + i] \o [i \in 1 .. 26 |-> 64 + i] \o <<32>>

RECURSIVE ReadBits(_, _, _, _, _)
\* ReadBits (HXDecoder.cpp:351-364) and the same loop inside the mode
\* decoders; st is [pos, bitPos, result, read]
ReadBits(codewords, st, i, numBits, value) ==
    IF i < numBits /\ st.pos < Len(codewords)
    THEN LET bit == (codewords[st.pos + 1] \div (2 ^ (7 - st.bitPos))) % 2
             wraps == st.bitPos + 1 = 8
         IN  ReadBits(codewords,
                 [st EXCEPT !.bitPos = IF wraps THEN 0 ELSE @ + 1,
                            !.pos = IF wraps THEN @ + 1 ELSE @,
                            !.read = @ \cup {st.pos}],
                 i + 1, numBits, 2 * value + bit)
    ELSE [value |-> value, st |-> st]

RECURSIVE DecodeNumeric(_, _, _)
\* DecodeNumeric (HXDecoder.cpp:169-200)
DecodeNumeric(codewords, st, count) ==
    IF ~(count > 0) THEN st
    ELSE IF st.pos >= Len(codewords)
    THEN \* no bit is left: every further value is 0 and the rounds that remain
         \* push count digits '0' between them
         [st EXCEPT !.result = @ \o [i \in 1 .. count |-> 48]]
    ELSE LET r == ReadBits(codewords, st, 0, 10, 0)
             value == r.value
             push(s) == [r.st EXCEPT !.result = s]
         IN  IF count >= 3
             THEN DecodeNumeric(codewords,
                      push(PushBack(PushBack(PushBack(st.result, 48 + (value \div 100)),
                                             48 + ((value \div 10) % 10)), 48 + (value % 10))),
                      count - 3)
             ELSE IF count = 2
             THEN push(PushBack(PushBack(st.result, 48 + (value \div 10)), 48 + (value % 10)))
             ELSE push(PushBack(st.result, 48 + value))

\* the bytes one value of a mode contributes: DecodeText (subset 1),
\* DecodeBinary, DecodeRegionChinese, DecodeDoubleByte, DecodeFourByte
\* (HXDecoder.cpp:206-343)
ModeBits(mode) ==
    IF mode = 2 THEN 6 ELSE IF mode \in {3, 4} THEN 8 ELSE IF mode \in {5, 6} THEN 12
    ELSE IF mode = 7 THEN 15 ELSE 21

ModeBytes(mode, value) ==
    IF mode = 2 THEN (IF value < 37 THEN <<TEXT_SET1[value + 1]>> ELSE <<>>)
    ELSE IF mode \in {3, 4} THEN <<value % 256>>
    ELSE IF mode \in {5, 6}
    THEN <<((value + 45217) \div 256) % 256, (value + 45217) % 256>>
    ELSE IF mode = 7 THEN <<((value \div 192) + 129) % 256, ((value % 192) + 64) % 256>>
    ELSE LET temp == value % 12600
         IN  <<((value \div 12600) + 129) % 256, ((temp \div 1260) + 48) % 256,
               (((temp % 1260) \div 10) + 129) % 256, (((temp % 1260) % 10) + 48) % 256>>

RECURSIVE DecodeMode(_, _, _, _)
\* the loop `while (count > 0 && pos < codewords.size())` of these decoders
DecodeMode(codewords, st, count, mode) ==
    IF count > 0 /\ st.pos < Len(codewords)
    THEN LET r == ReadBits(codewords, st, 0, ModeBits(mode), 0)
         IN  DecodeMode(codewords,
                 [r.st EXCEPT !.result = st.result \o ModeBytes(mode, r.value)],
                 count - 1, mode)
    ELSE st

RECURSIVE HXDecodeLoop(_, _, _)
\* the loop of DecodeData (HXDecoder.cpp:379-426)
HXDecodeLoop(codewords, st, dataCodewords) ==
    IF ~(st.pos < dataCodewords) THEN st
    ELSE LET m == ReadBits(codewords, st, 0, 4, 0)
             mode == m.value
             c == ReadBits(codewords, m.st, 0, IF mode \in {1, 2, 3, 4} THEN 13 ELSE 12, 0)
             eci == ReadBits(codewords, m.st, 0, 8, 0)
         IN  IF mode = 0 THEN m.st
             ELSE IF mode = 1
             THEN HXDecodeLoop(codewords, DecodeNumeric(codewords, c.st, c.value), dataCodewords)
             ELSE IF mode \in 2 .. 8
             THEN HXDecodeLoop(codewords, DecodeMode(codewords, c.st, c.value, mode),
                               dataCodewords)
             ELSE IF mode = 9 THEN HXDecodeLoop(codewords, eci.st, dataCodewords)
             ELSE HXDecodeLoop(codewords, m.st, dataCodewords)

\* DecodeData of the Han Xin decoder (HXDecoder.cpp:371-429)
HXDecodeData(codewords, dataCodewords) ==
    LET st == HXDecodeLoop(codewords, [pos |-> 0, bitPos |-> 0, result |-> <<>>, read |-> {}],
                           dataCodewords)
    IN  [pos |-> st.pos, result |-> st.result, read |-> st.read]

(***************************************************************************)
(* SpecCodecs: one call of one decoder on one input.                       *)
(***************************************************************************)
\* two-row Codablock F symbols: one codeword per row (a character, or in the
\* first row the code for set C or FNC4), K1
\* and K2 in the last row, each check codeword right or off by one; the rows
\* are found in either order; also a lone row and a row without stop
CodablockFInputs ==
    LET chk(body) == (body[1] + SumWeighted(body, 2, Len(body), -1)) % 103
        row(body, d) == body \o <<(chk(body) + d) % 103, 106>>
        first(a, d) == row(<<103, 0, a>>, d)
        last(a, b, dk, d) == row(<<103, 43, b, (a + 2 * b + dk) % 86, b % 86>>, d)
        symbols == {<<first(a, d1), last(a, b, dk, d2)>> :
                        a \in {33, 34, 99, 101}, b \in {33, 70}, d1 \in {0, 1}, dk \in {0, 1}, d2 \in {0, 1}}
    IN  symbols \cup {<<sym[2], sym[1]>> : sym \in symbols}
                \cup {<<first(33, 0)>>, <<first(33, 0), <<103, 43, 33, 33, 33, 33>>>>}

\* two-row Code 16K symbols in mode 0, 1 or 2 (code set A, B, C): two
\* codewords (characters, shift, code for set C, a pad), pads, and the two
\* check codewords right or off by one; the rows found in either order,
\* twice, or without the first row
Code16KInputs ==
    LET body(mode, a, b) == <<mode, a, b, 106, 106, 106, 106, 106>>
        c1(cw) == SumWeighted(cw, 1, 8, 1) % 107
        c2(cw) == (SumWeighted(cw, 1, 8, 0) + c1(cw) * 9) % 107
        all(cw, d1, d2) == cw \o <<(c1(cw) + d1) % 107, (c2(cw) + d2) % 107>>
        rows(cw) == <<[rowIndex |-> 0, codewords |-> SubSeq(cw, 1, 5)],
                      [rowIndex |-> 1, codewords |-> SubSeq(cw, 6, 10)]>>
        symbols == {rows(all(body(mode, a, b), d1, d2)) :
                        mode \in {0, 1, 2}, a \in {33, 70, 98, 99}, b \in {34, 106}, d1 \in {0, 1}, d2 \in {0, 1}}
    IN  symbols \cup {<<sym[2], sym[1]>> : sym \in symbols}
                \cup {<<sym[1], sym[1], sym[2]>> : sym \in symbols}
                \cup {<<sym[2], [sym[1] EXCEPT !.rowIndex = -1]>> : sym \in symbols}

\* RM4SCC symbols: start bar, the bars of the data characters and of a check
\* character that is right or the next character, stop bar; read from the
\* left or from the right; also bars that are no character, and a bar short
RM4SCCInputs ==
    LET bars(chars) == IF Len(chars) = 0 THEN <<>>
                       ELSE IF Len(chars) = 1 THEN ROYAL_TABLE[chars[1] + 1]
                       ELSE IF Len(chars) = 2
                            THEN ROYAL_TABLE[chars[1] + 1] \o ROYAL_TABLE[chars[2] + 1]
                       ELSE ROYAL_TABLE[chars[1] + 1] \o ROYAL_TABLE[chars[2] + 1]
                            \o ROYAL_TABLE[chars[3] + 1] \o ROYAL_TABLE[chars[4] + 1]
                            \o ROYAL_TABLE[chars[5] + 1] \o ROYAL_TABLE[chars[6] + 1]
                            \o ROYAL_TABLE[chars[7] + 1]
        symbol(chars, chk) == <<1>> \o bars(chars) \o ROYAL_TABLE[chk + 1] \o <<0>>
        alphabet == {1, 10, 28, 35}
        datas == {<<a>> : a \in alphabet} \cup {<<a, b>> : a \in alphabet, b \in alphabet}
                     \cup {<<28, 23, 3, 8, 1, 10, 11>>}
        symbols == {symbol(d, chk) : d \in datas, chk \in 0 .. 35}
        flip(st) == [i \in 1 .. Len(st) |-> st[Len(st) + 1 - i]]
    IN  symbols \cup {flip(st) : st \in symbols}
                \cup {<<1, 0, 0, 0, 0, 3, 3, 0, 0, 0>>, <<1, 3, 3, 0, 0, 3, 3, 0, 0>>}

\* Pharmacode candidates of 1 .. MaxPharmaBars bars, each narrow (one module)
\* or wide (three modules), spaces of two modules, modules of 1 or 2 pixels;
\* and one of 17 bars
MaxPharmaBars == 5

PharmacodeInputs ==
    LET view(wide, module) ==
            [i \in 1 .. 2 * Len(wide) - 1 |->
                IF i % 2 = 0 THEN 2 * module
                ELSE IF wide[(i + 1) \div 2] THEN 3 * module ELSE module]
    IN  {view(wide, module) :
            wide \in UNION {[1 .. n -> BOOLEAN] : n \in 1 .. MaxPharmaBars}, module \in {1, 2}}
        \cup {view([i \in 1 .. 17 |-> i % 2 = 0], 1)}

\* six Code 39 characters, each from Code32Chars (0, 1, 9, H, Z of the
\* base-32 alphabet and the vowel A, which is not in it), and a text of five
Code32Chars == {48, 49, 57, 72, 90, 65}

Code32Inputs == [1 .. 6 -> Code32Chars] \cup {<<48, 48, 48, 48, 48>>}

\* Channel Code width vectors bar, space, bar, ..., bar of the total data
\* width: all of channel 3, those of channel 4 whose first four elements are
\* one module wide, and one of channel 3 that is a module short
ChannelInputs ==
    LET widths3 == {v \in [1 .. 5 -> 1 .. 7] : v[1] + v[2] + v[3] + v[4] + v[5] = 11}
        widths4 == {<<1, 1, 1, 1>> \o v : v \in {w \in [1 .. 3 -> 1 .. 7] : w[1] + w[2] + w[3] = 9}}
        call(channel, v) ==
            [channel |-> channel,
             bars |-> [i \in 1 .. channel |-> v[2 * i - 1]],
             spaces |-> [i \in 1 .. channel - 1 |-> v[2 * i]]]
    IN  {call(3, v) : v \in widths3} \cup {call(4, v) : v \in widths4}
            \cup {call(3, <<1, 1, 1, 1, 6>>)}

\* codewords of a matrix symbol with their number of error correction
\* codewords, and what ReedSolomonDecode over GF(256) makes of them: failure,
\* or the codewords with one of them replaced
CorrectErrorsInputs ==
    LET words == {<<c1, c2, c3>> : c1 \in {0, 112, 255}, c2 \in {0, 1}, c3 \in {0, 200}}
        outcomes(cw) == {[ok |-> FALSE, codewords |-> cw], [ok |-> TRUE, codewords |-> cw]}
                            \cup {[ok |-> TRUE, codewords |-> [cw EXCEPT ![1] = v]] : v \in {7, 255}}
    IN  UNION {{[codewords |-> cw, ecCodewords |-> ec, decoded |-> d] :
                   ec \in {0, 2}, d \in outcomes(cw)} : cw \in words}

ContentData == 3   \* data codewords of the symbols given to the content decoders

\* Code One / DotCode symbols of ContentData data and two error correction
\* codewords: a first codeword of every kind DecodeData tells apart, then
\* codewords that are a character, a length, an unlatch or a pad
ContentInputs ==
    LET first == {66, 129, 142, 230, 231, 235, 238, 239, 240, 250}
        rest == [1 .. ContentData + 1 -> {0, 2, 125, 254}]
    IN  {[codewords |-> <<c>> \o r, dataCodewords |-> ContentData] : c \in first, r \in rest}

\* Han Xin symbols of ContentData data and two error correction codewords:
\* a mode indicator with the high bits of its count, the low bits of the
\* count, then data bits
HXInputs ==
    LET first == {0, 16, 32, 48, 80, 112, 128, 144, 241}
        rest == [1 .. ContentData -> {0, 133, 255}]
    IN  {[codewords |-> <<c, n>> \o r, dataCodewords |-> ContentData] :
            c \in first, n \in {0, 1, 2}, r \in rest}

InitCodecs ==
    /\ RSUnused
    /\ ODUnused
    /\ RDUnused
    /\ GFUnused
    /\ cdPc = "idle"
    /\ cdFn = "none"
    /\ cdIn = <<>>
    /\ cdOut = <<>>

\* one call: the function, its argument and what it returned
CodecCall(fn, input, out) ==
    /\ cdPc = "idle"
    /\ cdPc' = "done"
    /\ cdFn' = fn
    /\ cdIn' = input
    /\ cdOut' = out
    /\ UNCHANGED <<rsVars, odVars, rdVars, gfVars>>

CodablockFDecode ==
    /\ cdPc = "idle"
    /\ \E rows \in CodablockFInputs :
           CodecCall("CodablockF", rows, CodablockFDecodeInternal(rows))

Code16KDecode ==
    /\ cdPc = "idle"
    /\ \E rows \in Code16KInputs :
           CodecCall("Code16K", rows, Code16KDecodeInternal(rows))

RM4SCCDecode ==
    /\ cdPc = "idle"
    /\ \E states \in RM4SCCInputs :
           CodecCall("RM4SCC", states, RM4SCCDecodeInternal(states))

PharmacodeDecode ==
    /\ cdPc = "idle"
    /\ \E codeView \in PharmacodeInputs :
           CodecCall("Pharmacode", codeView, PharmacodeDecodePattern(codeView))

Code32Decode ==
    /\ cdPc = "idle"
    /\ \E code39Text \in Code32Inputs :
           CodecCall("Code32", Vector(code39Text), Code32DecodePattern(code39Text))

ChannelDecode ==
    /\ cdPc = "idle"
    /\ \E in \in ChannelInputs :
           CodecCall("ChannelCode", in,
                     [value |-> DecodeChannelValue(in.bars, in.spaces, in.channel)])

GMCorrect ==
    /\ cdPc = "idle"
    /\ \E in \in CorrectErrorsInputs :
           CodecCall("GMCorrectErrors", in,
                     GMCorrectErrors(in.codewords, in.ecCodewords, in.decoded))

DCCorrect ==
    /\ cdPc = "idle"
    /\ \E in \in CorrectErrorsInputs :
           CodecCall("DCCorrectErrors", in,
                     DCCorrectErrors(in.codewords, in.ecCodewords, in.decoded))

C1Correct ==
    /\ cdPc = "idle"
    /\ \E in \in CorrectErrorsInputs :
           CodecCall("C1CorrectErrors", in,
                     C1CorrectErrors(in.codewords, in.ecCodewords, in.decoded))

HXCorrect ==
    /\ cdPc = "idle"
    /\ \E in \in CorrectErrorsInputs :
           CodecCall("HXCorrectErrors", in,
                     HXCorrectErrors(in.codewords, in.ecCodewords, in.decoded))

C1Content ==
    /\ cdPc = "idle"
    /\ \E in \in ContentInputs :
           CodecCall("C1DecodeData", in, C1DecodeData(in.codewords, in.dataCodewords))

DCContent ==
    /\ cdPc = "idle"
    /\ \E in \in ContentInputs :
           CodecCall("DCDecodeData", in, DCDecodeData(in.codewords, in.dataCodewords))

HXContent ==
    /\ cdPc = "idle"
    /\ \E in \in HXInputs :
           CodecCall("HXDecodeData", in, HXDecodeData(in.codewords, in.dataCodewords))

NextCodecs ==
    \/ CodablockFDecode
    \/ Code16KDecode
    \/ RM4SCCDecode
    \/ PharmacodeDecode
    \/ Code32Decode
    \/ ChannelDecode
    \/ GMCorrect
    \/ DCCorrect
    \/ C1Correct
    \/ HXCorrect
    \/ C1Content
    \/ DCContent
    \/ HXContent

SpecCodecs == InitCodecs /\ [][NextCodecs]_vars

\* C13: a Codablock F or Code 16K symbol is returned as an error-free result
\* only if every row's check codeword is the row's checksum (mod 103, over
\* the start code and the position-weighted codewords before it) and the
\* symbol's final check pair (K1/K2 mod 86 over the data codewords of
\* Codablock F; the mod-107 pair of Code 16K) matches the codewords read.
C13_StackedChecksMustMatch ==
    LET valid == cdPc = "done" /\ cdOut.format # "None" /\ cdOut.error = "None"
        rowOK(cw) == cw[Len(cw) - 1] = (cw[1] + SumWeighted(cw, 2, Len(cw) - 2, -1)) % 103
        firstRow == CHOOSE n \in 1 .. Len(cdIn) : cdIn[n][2] < 42
        lastRow == CHOOSE n \in 1 .. Len(cdIn) : cdIn[n][2] >= 42
        a == cdIn[firstRow][3]
        b == cdIn[lastRow][3]
        pairOK == cdIn[lastRow][4] = (a + 2 * b) % 86 /\ cdIn[lastRow][5] = b % 86
        cw16 == (CHOOSE r \in {cdIn[n] : n \in 1 .. Len(cdIn)} : r.rowIndex = 0).codewords
                \o (CHOOSE r \in {cdIn[n] : n \in 1 .. Len(cdIn)} : r.rowIndex = 1).codewords
        first16 == SumWeighted(cw16, 1, 8, 1) % 107
        second16 == (SumWeighted(cw16, 1, 8, 0) + first16 * 9) % 107
    IN  /\ (cdFn = "CodablockF" /\ valid) =>
               ((\A n \in 1 .. Len(cdIn) : rowOK(cdIn[n])) /\ pairOK)
        /\ (cdFn = "Code16K" /\ valid) =>
               (cw16[9] = first16 /\ cw16[10] = second16)

\* the characters (indices into 0-9 A-Z) of the RM4SCC bars of cdIn, read from
\* the end that holds the ascender start bar
RM4SCCCharsRead ==
    LET read == IF cdIn[1] = 1 THEN cdIn
                ELSE [i \in 1 .. Len(cdIn) |-> cdIn[Len(cdIn) + 1 - i]]
    IN  [k \in 1 .. (Len(cdIn) - 2) \div 4 |->
            CHOOSE idx \in 0 .. 35 : ROYAL_TABLE[idx + 1] = SubSeq(read, 4 * k - 2, 4 * k + 1)]

\* the check character of the data characters of RM4SCCCharsRead: row sum
\* mod 6 and column sum mod 6 of their positions in the 6 x 6 square
RM4SCCCheckOfRead ==
    LET n == Len(RM4SCCCharsRead) - 1
        rows[k \in 0 .. n] == IF k = 0 THEN 0 ELSE rows[k - 1] + (RM4SCCCharsRead[k] \div 6)
        cols[k \in 0 .. n] == IF k = 0 THEN 0 ELSE cols[k - 1] + (RM4SCCCharsRead[k] % 6)
    IN  (rows[n] % 6) * 6 + (cols[n] % 6)

\* C14 as stated: the text of an RM4SCC result is the data characters
\* followed by the check character derived from (sum of row values mod 6,
\* sum of column values mod 6) of the data characters.
C14_TextIsDataThenCheck ==
    (cdPc = "done" /\ cdFn = "RM4SCC" /\ cdOut.format = "RM4SCC") =>
        LET n == Len(RM4SCCCharsRead) - 1
            code(idx) == IF idx < 10 THEN 48 + idx ELSE 55 + idx
        IN  cdOut.text = [k \in 1 .. n + 1 |->
                              IF k <= n THEN code(RM4SCCCharsRead[k]) ELSE code(RM4SCCCheckOfRead)]

\* C14 amended: the text of an RM4SCC result is the data characters without
\* the check character, and a result is returned only if the check character
\* read is the one derived from (sum of row values mod 6, sum of column
\* values mod 6) of the data characters; SN38 1AB yields "SN381AB".
C14_TextIsDataWithoutCheck ==
    (cdPc = "done" /\ cdFn = "RM4SCC" /\ cdOut.format = "RM4SCC") =>
        LET n == Len(RM4SCCCharsRead) - 1
            code(idx) == IF idx < 10 THEN 48 + idx ELSE 55 + idx
        IN  /\ cdOut.text = [k \in 1 .. n |-> code(RM4SCCCharsRead[k])]
            /\ RM4SCCCharsRead[n + 1] = RM4SCCCheckOfRead
            /\ cdOut.error = "None"

\* the postcode SN38 1AB, read from the right, is returned as SN381AB
C14_Witness ==
    /\ cdPc = "done"
    /\ cdFn = "RM4SCC"
    /\ cdIn[1] = 0
    /\ cdOut.format = "RM4SCC"
    /\ cdOut.text = <<83, 78, 51, 56, 49, 65, 66>>

\* C15: the Pharmacode value decoded from a bar sequence is the sum, over the
\* bars indexed n = 0, 1, ... from the rightmost bar, of 2^n for a narrow bar
\* (one module) and 2 * 2^n for a wide bar (three modules); five narrow bars
\* give 31 and five wide bars give 62.
C15_ValueIsSumOfBarWeights ==
    (cdPc = "done" /\ cdFn = "Pharmacode" /\ cdOut.format = "Pharmacode") =>
        LET module == cdIn[2] \div 2
            barCount == (Len(cdIn) + 1) \div 2
            \* the bar n places from the right
            wide(n) == cdIn[2 * (barCount - n) - 1] = 3 * module
            sum[n \in 0 .. barCount] ==
                IF n = 0 THEN 0
                ELSE sum[n - 1] + (IF wide(n - 1) THEN 2 * 2 ^ (n - 1) ELSE 2 ^ (n - 1))
            digits == cdOut.text
            number[k \in 0 .. Len(digits)] ==
                IF k = 0 THEN 0 ELSE 10 * number[k - 1] + digits[k]
        IN  number[Len(digits)] = sum[barCount]

\* C16: every error-free Code 32 result has a text of 'A' followed by exactly
\* nine decimal digits, the zero-padded decimal value of the six base-32
\* characters, and the ninth digit is the mod-10 check digit of the first
\* eight under the alternating 1/2-weight Luhn scheme (a doubled digit counts
\* as the sum of its two decimal digits).
C16_Code32TextAndCheckDigit ==
    (cdPc = "done" /\ cdFn = "Code32" /\ cdOut.format = "Code32" /\ cdOut.error = "None") =>
        LET text == cdOut.text
            d(i) == text[i + 1] - 48
            v(n) == CHOOSE i \in 0 .. 31 : BASE32_ALPHABET[i + 1] = cdIn[n]
            base32 == v(1) * 32 ^ 5 + v(2) * 32 ^ 4 + v(3) * 32 ^ 3 + v(4) * 32 ^ 2 + v(5) * 32 + v(6)
            decimal[k \in 0 .. 9] == IF k = 0 THEN 0 ELSE decimal[k - 1] * 10 + d(k)
            luhn(i) == IF i % 2 = 0 THEN ((2 * d(i)) \div 10) + ((2 * d(i)) % 10) ELSE d(i)
        IN  /\ Len(text) = 10
            /\ text[1] = 65
            /\ \A i \in 1 .. 9 : d(i) \in 0 .. 9
            /\ decimal[9] = base32
            /\ d(9) = (luhn(1) + luhn(2) + luhn(3) + luhn(4) + luhn(5) + luhn(6) + luhn(7) + luhn(8)) % 10

\* an error-free Code 32 result with a leading zero and a doubled digit above 9
C16_Witness ==
    /\ cdPc = "done"
    /\ cdFn = "Code32"
    /\ cdOut.format = "Code32"
    /\ cdOut.error = "None"
    /\ cdOut.text[2] = 48
    /\ \E i \in {2, 4, 6, 8} : cdOut.text[i + 1] >= 53

\* C17: the value DecodeChannelValue returns for a width vector of the
\* channel's total data width is its ordinal position in the enumeration:
\* the first vector (all elements one module, the last bar taking the rest)
\* maps to 0, and no vector maps beyond the channel maximum.
C17_OrdinalFromZeroToMaximum ==
    (cdPc = "done" /\ cdFn = "ChannelCode" /\ cdOut.value >= 0) =>
        LET n == cdIn.channel
            first == /\ \A i \in 1 .. n - 1 : cdIn.bars[i] = 1 /\ cdIn.spaces[i] = 1
                     /\ cdIn.bars[n] = <<11, 13, 15, 17, 19, 21>>[n - 2] - (2 * n - 2)
        IN  /\ cdOut.value <= <<26, 292, 3493, 44072, 576688, 7742862>>[n - 2]
            /\ first => cdOut.value = 0

\* C18: a Korea Post result comes from seven decoded digits whose seventh is
\* the mod-10 check of the first six (the seven digits sum to a multiple of
\* 10), and its text is exactly the six data digits.
C18_KoreaPostSixDigitsChecked ==
    (rdPc = "done" /\ rdReader = "KoreaPost" /\ Len(rdRet) > 0) =>
        /\ Len(rdInput) = 7
        /\ (rdInput[1] + rdInput[2] + rdInput[3] + rdInput[4] + rdInput[5] + rdInput[6]
                + rdInput[7]) % 10 = 0
        /\ Len(rdRet) = 1
        /\ rdRet[1].format = "KoreaPost"
        /\ rdRet[1].error = "None"
        /\ rdRet[1].text = <<rdInput[1], rdInput[2], rdInput[3], rdInput[4], rdInput[5], rdInput[6]>>

\* a Korea Post result whose data digits sum to more than 10, check digit 8
C18_Witness ==
    /\ rdPc = "done"
    /\ rdReader = "KoreaPost"
    /\ Len(rdRet) = 1
    /\ rdInput[6] = 9
    /\ rdInput[7] = 8
    /\ Len(rdRet[1].text) = 6

\* C19: Grid Matrix error correction goes through the prime-field decoder
\* over GF(929) and DotCode error correction through the prime-field decoder
\* over GF(113); neither corrects its codewords over GF(256).
C19_PrimeFieldErrorCorrection ==
    (cdPc = "done" /\ cdFn \in {"GMCorrectErrors", "DCCorrectErrors"} /\ cdIn.ecCodewords > 0) =>
        /\ cdOut.decoder = "ReedSolomonDecodeModulus"
        /\ cdOut.fieldSize = (IF cdFn = "GMCorrectErrors" THEN 929 ELSE 113)
        /\ cdOut.fieldSize # 256

\* C25: every codeword sequence handed to a Reed-Solomon decoder by Code One,
\* DotCode or Han Xin consists only of integers inside the value range of the
\* field it is decoded over (0 <= codeword < field size).
C25_CodewordsInsideField ==
    (/\ cdPc = "done"
     /\ cdFn \in {"C1CorrectErrors", "DCCorrectErrors", "HXCorrectErrors"}
     /\ cdOut.decoder # "none") =>
        \A i \in 1 .. Len(cdOut.handed) :
            0 <= cdOut.handed[i] /\ cdOut.handed[i] < cdOut.fieldSize

\* C26: the content decoders of Code One, DotCode and Han Xin interpret only
\* data codewords: in every mode no codeword at an index >= the data-codeword
\* count is read, so error-correction codewords never contribute to the text.
C26_OnlyDataCodewordsRead ==
    (cdPc = "done" /\ cdFn \in {"C1DecodeData", "DCDecodeData", "HXDecodeData"}) =>
        \A i \in cdOut.read : i < cdIn.dataCodewords

(***************************************************************************)
(* GetGF113 / GetGF929 (ModulusGFFields.cpp:12-26) called from several     *)
(* threads (SpecFields).  Each function holds a function-local             *)
(* static const Pdf417::ModulusGF; the language initialises it under a     *)
(* guard the first time control passes through its declaration.            *)
(***************************************************************************)
MaxThreads == 2
MaxCalls == 2

Threads == 1 .. MaxThreads

\* the tables the ModulusGF constructor builds for the field of modulus p
FieldTables(p) ==
    IF p = GF113 THEN [exp |-> ExpTable113, log |-> LogTable113]
    ELSE [exp |-> ExpTable929, log |-> LogTable929]

NoTables == [exp |-> <<>>, log |-> <<>>]

\* a caller that finds the guard held by another thread passes on at once
StaticInitOutcomeUnguarded(guard) ==
    IF guard = "uninitialized" THEN "construct" ELSE "return"

\* what a thread reaching the declaration of the static does, by the state of
\* its guard (ModulusGFFields.cpp:16, 24): the first one constructs, one that
\* arrives during the construction waits, later ones pass
StaticInitOutcome(guard) ==
    IF guard = "uninitialized" THEN "construct"
    ELSE IF guard = "in_progress" THEN "wait"
    ELSE "return"

InitFields ==
    /\ RSUnused
    /\ ODUnused
    /\ RDUnused
    /\ CDUnused
    /\ gfGuard = [p \in Fields |-> "uninitialized"]
    /\ gfObject = [p \in Fields |-> NoTables]
    /\ gfInits = [p \in Fields |-> 0]
    /\ gfThread = [t \in Threads |->
                       [pc |-> "idle", field |-> GF113, seenField |-> GF113,
                        seen |-> NoTables, calls |-> 0, waited |-> FALSE]]

\* a thread calls the getter of field p and reaches the static's declaration
GetGF(t, p) ==
    /\ gfThread[t].pc = "idle"
    /\ gfThread[t].calls < MaxCalls
    /\ \E outcome \in {StaticInitOutcome(gfGuard[p])} :
           \/ /\ outcome = "construct"
              /\ gfGuard' = [gfGuard EXCEPT ![p] = "in_progress"]
              /\ gfInits' = [gfInits EXCEPT ![p] = @ + 1]
              /\ gfThread' = [gfThread EXCEPT ![t].pc = "construct_exp", ![t].field = p]
           \/ /\ outcome = "wait"
              /\ gfThread' = [gfThread EXCEPT ![t].pc = "waiting", ![t].field = p,
                                              ![t].waited = TRUE]
              /\ UNCHANGED <<gfGuard, gfInits>>
           \/ /\ outcome = "return"
              /\ gfThread' = [gfThread EXCEPT ![t].pc = "returned", ![t].field = p]
              /\ UNCHANGED <<gfGuard, gfInits>>
    /\ UNCHANGED <<gfObject, rsVars, odVars, rdVars, cdVars>>

GetGF113 == \E t \in Threads : GetGF(t, GF113)

GetGF929 == \E t \in Threads : GetGF(t, GF929)

\* the constructor ModulusGF(p, 3) fills the exponent table, then the
\* logarithm table
ConstructExp ==
    \E t \in Threads :
        /\ gfThread[t].pc = "construct_exp"
        /\ gfObject' = [gfObject EXCEPT ![gfThread[t].field].exp = FieldTables(gfThread[t].field).exp]
        /\ gfThread' = [gfThread EXCEPT ![t].pc = "construct_log"]
        /\ UNCHANGED <<gfGuard, gfInits, rsVars, odVars, rdVars, cdVars>>

ConstructLog ==
    \E t \in Threads :
        /\ gfThread[t].pc = "construct_log"
        /\ gfObject' = [gfObject EXCEPT ![gfThread[t].field].log = FieldTables(gfThread[t].field).log]
        /\ gfThread' = [gfThread EXCEPT ![t].pc = "constructed"]
        /\ UNCHANGED <<gfGuard, gfInits, rsVars, odVars, rdVars, cdVars>>

\* the constructor returned: the guard is released as complete
CompleteInit ==
    \E t \in Threads :
        /\ gfThread[t].pc = "constructed"
        /\ gfGuard' = [gfGuard EXCEPT ![gfThread[t].field] = "complete"]
        /\ gfThread' = [gfThread EXCEPT ![t].pc = "returned"]
        /\ UNCHANGED <<gfObject, gfInits, rsVars, odVars, rdVars, cdVars>>

\* a waiting thread goes on once the initialisation is complete
WakeUp ==
    \E t \in Threads :
        /\ gfThread[t].pc = "waiting"
        /\ gfGuard[gfThread[t].field] = "complete"
        /\ gfThread' = [gfThread EXCEPT ![t].pc = "returned"]
        /\ UNCHANGED <<gfGuard, gfObject, gfInits, rsVars, odVars, rdVars, cdVars>>

\* the caller uses the reference it got: it reads the tables
ReadTables ==
    \E t \in Threads :
        /\ gfThread[t].pc = "returned"
        /\ gfThread' = [gfThread EXCEPT ![t].pc = "idle",
                                        ![t].seenField = gfThread[t].field,
                                        ![t].seen = gfObject[gfThread[t].field],
                                        ![t].calls = @ + 1]
        /\ UNCHANGED <<gfGuard, gfObject, gfInits, rsVars, odVars, rdVars, cdVars>>

NextFields ==
    \/ GetGF113
    \/ GetGF929
    \/ ConstructExp
    \/ ConstructLog
    \/ CompleteInit
    \/ WakeUp
    \/ ReadTables

SpecFields == InitFields /\ [][NextFields]_vars

\* C20: each of the two field objects is initialised exactly once, on first
\* use; every caller, also one whose first call runs while another thread
\* initialises, observes the same fully initialised tables; and once an
\* object is initialised no step changes it.
C20_InitialisedOnceThenReadOnly ==
    /\ [](/\ \A p \in Fields :
               /\ gfInits[p] <= 1
               /\ (gfInits[p] = 0) = (gfGuard[p] = "uninitialized")
               /\ gfGuard[p] = "complete" => gfObject[p] = FieldTables(p)
          /\ \A t \in Threads :
               /\ gfThread[t].pc = "returned" => gfObject[gfThread[t].field] = FieldTables(gfThread[t].field)
               /\ gfThread[t].calls > 0 => gfThread[t].seen = FieldTables(gfThread[t].seenField))
    /\ [][\A p \in Fields : gfGuard[p] = "complete" =>
                                (gfObject'[p] = gfObject[p] /\ gfGuard'[p] = "complete")]_vars

\* two threads made their first call of GetGF929 concurrently: one waited for
\* the other's initialisation, and both read the same complete tables
C20_Witness ==
    \E t1 \in Threads : \E t2 \in Threads \ {t1} :
        /\ gfThread[t1].waited
        /\ ~gfThread[t2].waited
        /\ gfThread[t1].seenField = GF929 /\ gfThread[t2].seenField = GF929
        /\ gfThread[t1].calls = 1 /\ gfThread[t2].calls = 1
        /\ gfThread[t1].seen = FieldTables(GF929)
        /\ gfThread[t2].seen = gfThread[t1].seen
        /\ gfInits[GF929] = 1

====
